---- MODULE Spec2Model ----
(***************************************************************************)
(* HexaCiphers: the coordinated-activity detector                          *)
(* (backend/detection/campaign_detector.py, class CampaignDetector), the   *)
(* keyword classifiers (backend/models/classifier.py, SentimentClassifier) *)
(* and the text cleaner (backend/preprocessing/text_processor.py).         *)
(*                                                                         *)
(* A post is a mapping {user_id, username, content, created_at}.           *)
(*  - content is a sequence of whitespace-separated tokens; a token of     *)
(*    the form #\w+ is what re.findall(r'#\w+', ...) returns.              *)
(*  - created_at is a naive datetime object, an ISO-8601 string with or    *)
(*    without a trailing 'Z', a string that does not parse, or absent.     *)
(*  - times are seconds counted from a midnight; a time span in hours is   *)
(*    kept as its number of seconds (span_h < 2  <=>  span_s < 7200).      *)
(*  - a float score is kept as an exact fraction <<num, den>>.             *)
(* A text handed to a classifier or to the cleaner is its sequence of      *)
(* characters.                                                             *)
(***************************************************************************)
EXTENDS Integers, Sequences, FiniteSets, TLC

VARIABLES
    client,                   \* which family of batches the caller supplies
    networkx,                 \* NETWORKX_AVAILABLE, fixed at import
    min_campaign_volume,      \* self.min_campaign_volume
    bot_indicators_threshold, \* self.bot_indicators_threshold
    posts,                    \* the batch handed to detect_campaigns
    campaigns,                \* what detect_campaigns(posts) returned
    campaignsAgain,           \* what a second call on the same batch returned
    postsReordered,           \* a permutation of posts handed to a further call
    campaignsReordered,       \* what detect_campaigns(postsReordered) returned
    bots,                     \* what detect_bot_users(posts) returned
    hashtag_activity,         \* the aggregates the latest detect_campaigns run built
    user_patterns,            \* what _analyze_user_patterns(posts) returned
    pattern_loop,             \* the loop of _analyze_user_patterns: posts passed, entries so far
    text,                     \* the text handed to the classifiers and the cleaner
    loaded,                   \* self.loaded and a sentiment pipeline, after _load_models
    sentiment,                \* what classify_sentiment(text) returned
    relation,                 \* what classify_india_relation(text) returned
    cleaned,                  \* what clean_text(text) returned
    alert_type,               \* the alert_type handed to calculate_alert_severity
    metrics,                  \* the metrics dict handed to calculate_alert_severity
    severity,                 \* what calculate_alert_severity(alert_type, metrics) returned
    lexicon,                  \* the lists load_keywords left in the SentimentAnalyzer
    df,                       \* the dataframe of tweets handed to analyze_tweets and generate_alerts
    alert_threshold,          \* self.alert_threshold of the AlertSystem of src/alert_system.py
    alerts                    \* what generate_alerts(df) returned

\* the detector, its inputs and what its calls returned
detectorVars == <<client, networkx, min_campaign_volume, bot_indicators_threshold, posts,
                  campaigns, campaignsAgain, postsReordered, campaignsReordered, bots,
                  hashtag_activity, user_patterns, pattern_loop>>

\* the classifier, the cleaner, their input and what their calls returned
textVars == <<text, loaded, sentiment, relation, cleaned>>

\* the alert systems, their inputs and what their calls returned
alertVars == <<alert_type, metrics, severity, lexicon, df, alert_threshold, alerts>>

vars == <<detectorVars, textVars, alertVars>>

----------------------------------------------------------------------------
(* Bounds of the model *)

\* longest batch of the general client
MaxPosts == 4
\* longest batch of the timestamp-format client
MaxStampPosts == 3
\* longest batch of the reordering client
MaxOrderPosts == 5
\* users of the shared-hashtag client (a network needs 6 to score above 0.5)
NumNetUsers == 6
\* longest batch of the client that lowers bot_indicators_threshold
MaxTunedPosts == 4
\* hundreds of posts in the longest batch of the client with one post per user
MaxEvenHundreds == 10
\* most posts in a batch of the two named users
MaxNamedPosts == 3
\* most posts in a batch of the scoring client
MaxScoredPosts == 3
\* most posts in a batch of the repeating client
MaxRepeatPosts == 5
\* most posts in a batch of the spaced client
MaxSpacedPosts == 3
\* most phrases in a text handed to the classifiers
MaxFragments == 3
\* most pieces in a text handed to the cleaner
MaxPieces == 4
MaxSeverityPosts == 3
MaxEngagementHalves == 2
MaxUsersBelow == 8
MaxTweets == 2
ProbabilityBits == 1

----------------------------------------------------------------------------
(* Sequence helpers *)

Range(s) == {s[i] : i \in 1..Len(s)}

Min2(a, b) == IF a <= b THEN a ELSE b

RECURSIVE SumSeq(_)
\* sum(xs), adding the two halves so that a batch of a thousand posts stays shallow
SumSeq(s) ==
    IF s = <<>> THEN 0
    ELSE IF Len(s) = 1 THEN s[1]
    ELSE LET half == Len(s) \div 2
         IN SumSeq(SubSeq(s, 1, half)) + SumSeq(SubSeq(s, half + 1, Len(s)))

RECURSIVE Dedup(_)
\* the distinct elements of s in order of first appearance (dict key order):
\* those of the first half, then those of the second half not among them
Dedup(s) ==
    IF Len(s) <= 1 THEN s
    ELSE LET half == Len(s) \div 2
             left == Dedup(SubSeq(s, 1, half))
             seen == Range(left)
         IN left \o SelectSeq(Dedup(SubSeq(s, half + 1, Len(s))), LAMBDA x : x \notin seen)

RECURSIVE SortAsc(_)
\* sorted(xs) on integers: the elements below the middle one, those equal to
\* it, those above it
SortAsc(s) ==
    IF Len(s) <= 1 THEN s
    ELSE LET p == s[(Len(s) + 1) \div 2]
         IN SortAsc(SelectSeq(s, LAMBDA x : x < p))
            \o SelectSeq(s, LAMBDA x : x = p)
            \o SortAsc(SelectSeq(s, LAMBDA x : x > p))

----------------------------------------------------------------------------
(* Text: lower-casing, hashtag extraction, the regular expressions *)

\* str.lower() on the tokens the clients use
Lower(tok) == CASE tok = "#Test" -> "#test" [] OTHER -> tok

\* the tokens r'#\w+' matches (the others are plain words)
IsHashtag(tok) == tok \in {"#test", "#Test", "#boycottindia", "#news"}

\* re.findall(r'#\w+', content.lower())
FindHashtags(content) ==
    LET low == [i \in 1..Len(content) |-> Lower(content[i])]
    IN SelectSeq(low, IsHashtag)

\* re.match(p, hashtag) for some p of suspicious_hashtag_patterns
MatchesSuspiciousHashtag(h) == h \in {"#boycottindia"}

Digits == {"0", "1", "2", "3", "4", "5", "6", "7", "8", "9"}

LowerLetters == {"a", "b", "c", "d", "e", "f", "g", "h", "i", "j", "k", "l", "m",
                 "n", "o", "p", "q", "r", "s", "t", "u", "v", "w", "x", "y", "z"}

\* the letters in alphabetical order, small and capital
Alphabet == <<"a", "b", "c", "d", "e", "f", "g", "h", "i", "j", "k", "l", "m",
              "n", "o", "p", "q", "r", "s", "t", "u", "v", "w", "x", "y", "z">>
CapitalAlphabet == <<"A", "B", "C", "D", "E", "F", "G", "H", "I", "J", "K", "L", "M",
                     "N", "O", "P", "Q", "R", "S", "T", "U", "V", "W", "X", "Y", "Z">>

\* str.lower() on one character
LowerChar(c) ==
    IF \E i \in 1..26 : CapitalAlphabet[i] = c
    THEN Alphabet[CHOOSE i \in 1..26 : CapitalAlphabet[i] = c]
    ELSE c

\* text.lower(), character by character
LowerText(t) == SubSeq([i \in 1..Len(t) |-> LowerChar(t[i])], 1, Len(t))

\* username.lower()
LowerName(name) == LowerText(name)

\* number of digits the name ends with
TrailingDigits(name) ==
    LET ks == {k \in 0..Len(name) : \A i \in (Len(name) - k + 1)..Len(name) : name[i] \in Digits}
    IN CHOOSE k \in ks : \A j \in ks : j <= k

ContainsWord(name, w) ==
    \E i \in 1..(Len(name) - Len(w) + 1) : SubSeq(name, i, i + Len(w) - 1) = w

\* r'.*\d{8,}$'
EndsWithEightDigits(name) == TrailingDigits(name) >= 8

\* r'^[a-zA-Z]+\d{4,}$'
LettersThenFourDigits(name) ==
    LET d == TrailingDigits(name)
    IN /\ d >= 4
       /\ Len(name) - d >= 1
       /\ \A i \in 1..(Len(name) - d) : name[i] \in LowerLetters

\* mutant: the rule r'.*bot.*' is left out
MatchesBotUsernameWithoutBot(username) ==
    LET name == LowerName(username)
    IN \/ EndsWithEightDigits(name)
       \/ LettersThenFourDigits(name)
       \/ ContainsWord(name, <<"f", "a", "k", "e">>)

\* some pattern of bot_username_patterns matches username.lower()
MatchesBotUsername(username) ==
    LET name == LowerName(username)
    IN \/ EndsWithEightDigits(name)
       \/ LettersThenFourDigits(name)
       \/ ContainsWord(name, <<"b", "o", "t">>)
       \/ ContainsWord(name, <<"f", "a", "k", "e">>)

----------------------------------------------------------------------------
(* Timestamps *)

Naive(t) == [aware |-> FALSE, t |-> t]
Aware(t) == [aware |-> TRUE, t |-> t]

\* created_at -> datetime, as both aggregation passes coerce it
CoerceTimestamp(created_at, now) ==
    CASE created_at.form = "datetime"  -> Naive(created_at.t)
      [] created_at.form = "iso"       -> Naive(created_at.t)
      [] created_at.form = "isoZ"      -> Aware(created_at.t)
      [] created_at.form = "malformed" -> Naive(now)
      [] created_at.form = "missing"   -> Naive(now)

\* comparing or subtracting an offset-aware and an offset-naive datetime raises TypeError
Mixed(ts) == {ts[i].aware : i \in 1..Len(ts)} = {TRUE, FALSE}

Hour(t) == (t \div 3600) % 24

----------------------------------------------------------------------------
(* _analyze_hashtag_activity *)

RECURSIVE OccurrencesIn(_, _, _)
\* the matches of posts lo..hi of the batch, in batch order
OccurrencesIn(batch, lo, hi) ==
    IF lo > hi THEN <<>>
    ELSE IF lo = hi
         THEN LET hs == FindHashtags(batch[lo].content)
              IN [k \in 1..Len(hs) |-> <<hs[k], lo>>]
    ELSE LET mid == (lo + hi) \div 2
         IN OccurrencesIn(batch, lo, mid) \o OccurrencesIn(batch, mid + 1, hi)

\* one entry per hashtag match, in batch order: <<hashtag, index of the post>>
Occurrences(batch) == OccurrencesIn(batch, 1, Len(batch))

\* keys of hashtag_activity in insertion order
HashtagKeys(batch) ==
    LET occ == Occurrences(batch) IN Dedup([k \in 1..Len(occ) |-> occ[k][1]])

\* mutant: total_posts is incremented once per post, not once per match
AnalyzeHashtagActivityPerPost(batch, h, now) ==
    LET occ == SelectSeq(Occurrences(batch), LAMBDA o : o[1] = h)
    IN [posts       |-> [k \in 1..Len(occ) |-> occ[k][2]],
        users       |-> {batch[occ[k][2]].user_id : k \in 1..Len(occ)},
        timestamps  |-> [k \in 1..Len(occ) |-> CoerceTimestamp(batch[occ[k][2]].created_at, now)],
        total_posts |-> Cardinality({occ[k][2] : k \in 1..Len(occ)})]

\* hashtag_activity[h] after the loop over the batch
AnalyzeHashtagActivity(batch, h, now) ==
    LET occ == SelectSeq(Occurrences(batch), LAMBDA o : o[1] = h)
    IN [posts       |-> [k \in 1..Len(occ) |-> occ[k][2]],
        users       |-> {batch[occ[k][2]].user_id : k \in 1..Len(occ)},
        timestamps  |-> [k \in 1..Len(occ) |-> CoerceTimestamp(batch[occ[k][2]].created_at, now)],
        total_posts |-> Len(occ)]

\* the dictionary _analyze_hashtag_activity returns
HashtagActivity(batch, now) ==
    [h \in Range(HashtagKeys(batch)) |-> AnalyzeHashtagActivity(batch, h, now)]

----------------------------------------------------------------------------
(* _detect_coordinated_hashtags *)

\* mutant: the volume filter also drops a group of exactly minVolume posts
PassesVolumeFilterOffByOne(activity, minVolume) == ~(activity.total_posts <= minVolume)

\* not skipped by `if activity['total_posts'] < self.min_campaign_volume: continue`
PassesVolumeFilter(activity, minVolume) == ~(activity.total_posts < minVolume)

\* mutant: the timestamp filter counts distinct instants
PassesTimestampFilterDistinct(activity) == ~(Cardinality(Range(activity.timestamps)) < 2)

\* not skipped by `if len(timestamps) < 2: continue`
PassesTimestampFilter(activity) == ~(Len(activity.timestamps) < 2)

\* max(hour_distribution.values())
MaxHourPosts(times) ==
    LET count(h) == Cardinality({i \in 1..Len(times) : Hour(times[i]) = h})
        counts == {count(h) : h \in 0..23}
    IN CHOOSE c \in counts : \A d \in counts : d <= c

\* mutant: repeated_posting from an average of 3 posts per user on
CoordinationIndicatorsAtLeastThree(h, activity, times, span) ==
    (IF span < 7200 /\ activity.total_posts > 10 THEN <<"rapid_posting">> ELSE <<>>)
    \o (IF activity.total_posts >= 3 * Cardinality(activity.users)
        THEN <<"repeated_posting">> ELSE <<>>)
    \o (IF MatchesSuspiciousHashtag(h) THEN <<"suspicious_hashtag">> ELSE <<>>)
    \o (IF 2 * MaxHourPosts(times) > activity.total_posts
        THEN <<"concentrated_timing">> ELSE <<>>)

\* the indicators list, in the order the checks append to it
CoordinationIndicators(h, activity, times, span) ==
    (IF span < 7200 /\ activity.total_posts > 10 THEN <<"rapid_posting">> ELSE <<>>)
    \o (IF activity.total_posts > 3 * Cardinality(activity.users)
        THEN <<"repeated_posting">> ELSE <<>>)
    \o (IF MatchesSuspiciousHashtag(h) THEN <<"suspicious_hashtag">> ELSE <<>>)
    \o (IF 2 * MaxHourPosts(times) > activity.total_posts
        THEN <<"concentrated_timing">> ELSE <<>>)

\* coordinated[h] for a group that passed the filters and whose timestamps sort
CoordinatedEntry(h, activity) ==
    LET times == SortAsc([k \in 1..Len(activity.timestamps) |-> activity.timestamps[k].t])
        span == times[Len(times)] - times[1]
    IN [hashtag     |-> h,
        total_posts |-> activity.total_posts,
        users       |-> activity.users,
        time_span   |-> span,
        first_post  |-> times[1],
        last_post   |-> times[Len(times)],
        indicators  |-> CoordinationIndicators(h, activity, times, span)]

\* [raised, out]: out lists coordinated's entries in insertion order;
\* sorted(timestamps) runs, and may raise, for every group that passed the volume filter
DetectCoordinatedHashtags(batch, now, minVolume) ==
    LET keys == HashtagKeys(batch)
        acts == [k \in 1..Len(keys) |->
                    <<keys[k], AnalyzeHashtagActivity(batch, keys[k], now)>>]
        big == SelectSeq(acts, LAMBDA a : PassesVolumeFilter(a[2], minVolume))
        kept == SelectSeq(big, LAMBDA a : PassesTimestampFilter(a[2]))
    IN IF \E k \in 1..Len(big) : Mixed(big[k][2].timestamps)
       THEN [raised |-> TRUE, out |-> <<>>]
       ELSE [raised |-> FALSE,
             out |-> [k \in 1..Len(kept) |-> CoordinatedEntry(kept[k][1], kept[k][2])]]

----------------------------------------------------------------------------
(* _check_bot_indicators and _analyze_user_patterns *)

\* user_patterns[user_id] as the defaultdict creates it
NewUserPattern == [posts |-> <<>>, hashtags |-> {}, post_times |-> <<>>, bot_indicators |-> <<>>]

\* mutant: the indicator is appended whether or not the list holds it
AddAlways(indicators, name) == Append(indicators, name)

\* if name not in indicators: indicators.append(name)
AddOnce(indicators, name) ==
    IF name \in Range(indicators) THEN indicators ELSE Append(indicators, name)

\* a user's last five posts hold fewer than 80% distinct contents
RepetitiveContent(userPosts) ==
    LET n == Len(userPosts)
        recent == SubSeq(userPosts, IF n > 5 THEN n - 4 ELSE 1, n)
        distinct == {recent[i].content : i \in 1..Len(recent)}
    IN n > 1 /\ 5 * Cardinality(distinct) < 4 * Len(recent)

\* post_times[i] - post_times[i-1] in seconds, in list order
TimeDiffs(times) == [i \in 1..(Len(times) - 1) |-> times[i + 1].t - times[i].t]

\* the differences' average is below 300 seconds
HighFrequency(times) ==
    Len(times) > 1 /\ SumSeq(TimeDiffs(times)) < 300 * Len(TimeDiffs(times))

\* subtracting two adjacent post times raises
DiffRaises(times) == \E i \in 1..(Len(times) - 1) : times[i + 1].aware # times[i].aware

\* bot_indicators after _check_bot_indicators(user_pattern, username, content)
CheckBotIndicators(pattern, username) ==
    LET i1 == IF MatchesBotUsername(username)
              THEN AddOnce(pattern.bot_indicators, "suspicious_username")
              ELSE pattern.bot_indicators
        i2 == IF RepetitiveContent(pattern.posts) THEN AddOnce(i1, "repetitive_content") ELSE i1
    IN IF HighFrequency(pattern.post_times) THEN AddOnce(i2, "high_frequency_posting") ELSE i2

\* the posts of user u, in batch order
UserPosts(batch, u) == SelectSeq(batch, LAMBDA p : p.user_id = u)

\* [raised, pat]: one turn of the loop, for a post of the user whose entry prev.pat is
StepUserPattern(prev, post, now) ==
    LET old == prev.pat
        grown == [posts          |-> Append(old.posts, post),
                  hashtags       |-> old.hashtags \cup Range(FindHashtags(post.content)),
                  post_times     |-> Append(old.post_times,
                                            CoerceTimestamp(post.created_at, now)),
                  bot_indicators |-> old.bot_indicators]
    IN IF prev.raised \/ DiffRaises(grown.post_times)
       THEN [raised |-> TRUE, pat |-> NewUserPattern]
       ELSE [raised |-> FALSE,
             pat    |-> [grown EXCEPT !.bot_indicators =
                             CheckBotIndicators(grown, post.username)]]

RECURSIVE UserPattern(_, _)
\* [raised, pat]: user_patterns[u] once the loop has passed these posts of user u
UserPattern(userPosts, now) ==
    IF userPosts = <<>> THEN [raised |-> FALSE, pat |-> NewUserPattern]
    ELSE StepUserPattern(UserPattern(SubSeq(userPosts, 1, Len(userPosts) - 1), now),
                         userPosts[Len(userPosts)], now)

RECURSIVE UserPatternsOf(_, _, _)
\* the outcome of the loop for each of the users in keys
UserPatternsOf(batch, keys, now) ==
    IF keys = <<>> THEN <<>>
    ELSE IF Len(keys) = 1 THEN keys[1] :> UserPattern(UserPosts(batch, keys[1]), now)
    ELSE LET half == Len(keys) \div 2
         IN UserPatternsOf(batch, SubSeq(keys, 1, half), now)
            @@ UserPatternsOf(batch, SubSeq(keys, half + 1, Len(keys)), now)

\* [raised, keys, pat]: user_patterns after the loop, keys in insertion order;
\* the loop touches only the entry of the post's user, so each entry is the
\* outcome of the loop over that user's posts
AnalyzeUserPatterns(batch, now) ==
    LET keys == Dedup([i \in 1..Len(batch) |-> batch[i].user_id])
        each == UserPatternsOf(batch, keys, now)
    IN IF \E u \in Range(keys) : each[u].raised
       THEN [raised |-> TRUE, keys |-> <<>>, pat |-> <<>>]
       ELSE [raised |-> FALSE,
             keys   |-> keys,
             pat    |-> [u \in Range(keys) |-> each[u].pat]]

----------------------------------------------------------------------------
(* _calculate_risk_score: the score as an exact fraction <<num, den>> *)

\* mutant: a user counts as a bot only above the threshold
BotUsersAboveThreshold(activity, patterns, threshold) ==
    {u \in activity.users :
        u \in DOMAIN patterns /\ Len(patterns[u].bot_indicators) > threshold}

\* users of the activity with at least `threshold` bot indicators
BotUsers(activity, patterns, threshold) ==
    {u \in activity.users :
        u \in DOMAIN patterns /\ Len(patterns[u].bot_indicators) >= threshold}

\* mutant: the second time band reaches to 24 hours instead of 6
RawRiskScoreDayBand(activity, patterns, threshold) ==
    LET nu == Cardinality(activity.users)
        volume == 3 * Min2(100, activity.total_posts)
        timing == IF activity.time_span < 3600 THEN 300
                  ELSE IF activity.time_span < 86400 THEN 200 ELSE 0
        botPart == IF nu > 0
                   THEN 300 * Cardinality(BotUsers(activity, patterns, threshold)) ELSE 0
    IN <<(volume + timing + 100 * Len(activity.indicators)) * nu + botPart, 1000 * nu>>

\* score before the final min(1.0, score), over the denominator 1000 * len(users)
RawRiskScore(activity, patterns, threshold) ==
    LET nu == Cardinality(activity.users)
        volume == 3 * Min2(100, activity.total_posts)
        timing == IF activity.time_span < 3600 THEN 300
                  ELSE IF activity.time_span < 21600 THEN 200 ELSE 0
        botPart == IF nu > 0
                   THEN 300 * Cardinality(BotUsers(activity, patterns, threshold)) ELSE 0
    IN <<(volume + timing + 100 * Len(activity.indicators)) * nu + botPart, 1000 * nu>>

\* min(1.0, score)
ClampToOne(score) == <<Min2(score[1], score[2]), score[2]>>

\* mutant: the score is returned without the final min(1.0, score)
CalculateRiskScoreUnclamped(activity, patterns, threshold) ==
    RawRiskScore(activity, patterns, threshold)

CalculateRiskScore(activity, patterns, threshold) ==
    ClampToOne(RawRiskScore(activity, patterns, threshold))

----------------------------------------------------------------------------
(* _detect_suspicious_networks and _get_network_indicators *)

\* G's nodes in insertion order
GraphNodes(batch) == Dedup([i \in 1..Len(batch) |-> batch[i].user_id])

\* hashtag_users[h]
HashtagUsers(batch, h) ==
    {batch[i].user_id : i \in {j \in 1..Len(batch) : h \in Range(FindHashtags(batch[j].content))}}

\* G's edges: for every hashtag, every pair of its users (the weights are not read)
GraphEdges(batch) ==
    LET hs == Range(HashtagKeys(batch))
    IN UNION {LET us == HashtagUsers(batch, h)
              IN {e \in {{u, v} : u \in us, v \in us} : Cardinality(e) = 2} : h \in hs}

RECURSIVE Reachable(_, _)
Reachable(seen, edges) ==
    LET more == seen \cup UNION {e \in edges : e \cap seen # {}}
    IN IF more = seen THEN seen ELSE Reachable(more, edges)

\* nx.connected_components(G), in the order the nodes yield them
ConnectedComponents(nodes, edges) ==
    Dedup([i \in 1..Len(nodes) |-> Reachable({nodes[i]}, edges)])

\* nx.density of the subgraph on a component, as a fraction
Density(component, edges) ==
    LET n == Cardinality(component)
        m == Cardinality({e \in edges : e \subseteq component})
    IN IF n <= 1 THEN <<0, 1>> ELSE <<2 * m, n * (n - 1)>>

\* min(1.0, density * len(component) / 10)
NetworkRiskScore(component, edges) ==
    LET d == Density(component, edges)
    IN ClampToOne(<<d[1] * Cardinality(component), d[2] * 10>>)

\* created_at as the network pass reads it: anything but a datetime object becomes utcnow()
NetworkTimestamp(created_at, now) ==
    IF created_at.form = "datetime" THEN created_at.t ELSE now

GetNetworkIndicators(component, edges, times) ==
    LET d == Density(component, edges)
        sorted == SortAsc(times)
        diffs == [i \in 1..(Len(sorted) - 1) |-> sorted[i + 1] - sorted[i]]
        close == Cardinality({i \in 1..Len(diffs) : diffs[i] < 60})
    IN (IF 10 * d[1] > 7 * d[2] THEN <<"high_density_network">> ELSE <<>>)
       \o (IF Len(times) > 1 /\ 10 * close > 3 * Len(diffs)
           THEN <<"coordinated_timing">> ELSE <<>>)

\* the network record of the k-th component of at least 3 users (k counts from 0)
NetworkEntry(batch, edges, component, k, now) ==
    LET mine == SelectSeq(batch, LAMBDA p : p.user_id \in component)
        times == [i \in 1..Len(mine) |-> NetworkTimestamp(mine[i].created_at, now)]
        sorted == SortAsc(times)
    IN [id             |-> "net_" \o ToString(k),
        users          |-> component,
        total_posts    |-> Len(mine),
        risk_score     |-> NetworkRiskScore(component, edges),
        first_activity |-> sorted[1],
        last_activity  |-> sorted[Len(sorted)],
        time_span      |-> sorted[Len(sorted)] - sorted[1],
        indicators     |-> GetNetworkIndicators(component, edges, times)]

\* mutant: the NETWORKX_AVAILABLE guard is missing
DetectSuspiciousNetworksUnguarded(batch, now, available) ==
    LET edges == GraphEdges(batch)
        big == SelectSeq(ConnectedComponents(GraphNodes(batch), edges),
                         LAMBDA c : Cardinality(c) >= 3)
    IN [k \in 1..Len(big) |-> NetworkEntry(batch, edges, big[k], k - 1, now)]

DetectSuspiciousNetworks(batch, now, available) ==
    IF ~available THEN <<>>
    ELSE LET edges == GraphEdges(batch)
             big == SelectSeq(ConnectedComponents(GraphNodes(batch), edges),
                              LAMBDA c : Cardinality(c) >= 3)
         IN [k \in 1..Len(big) |-> NetworkEntry(batch, edges, big[k], k - 1, now)]

----------------------------------------------------------------------------
(* What a call leaves behind: nothing yet, a returned list, or an exception *)

NotCalled == [status |-> "idle", out |-> <<>>]
Returned(out) == [status |-> "returned", out |-> out]
Raised == [status |-> "raised", out |-> <<>>]

----------------------------------------------------------------------------
(* detect_campaigns *)

\* a < b on fractions with positive denominators
FracLess(a, b) == a[1] * b[2] < b[1] * a[2]

RECURSIVE InsertByScoreDesc(_, _)
\* s and x are <<score, item>> pairs; x goes after every pair whose score is not
\* below x's (the sort is stable)
InsertByScoreDesc(s, x) ==
    IF s = <<>> THEN <<x>>
    ELSE IF FracLess(s[Len(s)][1], x[1])
         THEN Append(InsertByScoreDesc(SubSeq(s, 1, Len(s) - 1), x), s[Len(s)])
         ELSE Append(s, x)

RECURSIVE SortPairsDesc(_)
SortPairsDesc(s) ==
    IF s = <<>> THEN <<>>
    ELSE InsertByScoreDesc(SortPairsDesc(SubSeq(s, 1, Len(s) - 1)), s[Len(s)])

\* the items of sorted <<score, item>> pairs
Items(pairs) == [i \in 1..Len(pairs) |-> pairs[i][2]]

\* users[:10] of a list made from a set: `size` of the users in `among`, which
\* of them being a matter of the set's iteration order
FirstTen(users) == [among |-> users, size |-> Min2(10, Cardinality(users))]

\* mutant: volume and unique_users filled from each other's source
HashtagCampaignSwapped(activity, patterns, threshold) ==
    [hashtag               |-> activity.hashtag,
     volume                |-> Cardinality(activity.users),
     unique_users          |-> activity.total_posts,
     time_span             |-> activity.time_span,
     risk_score            |-> CalculateRiskScore(activity, patterns, threshold),
     first_detected        |-> activity.first_post,
     last_detected         |-> activity.last_post,
     suspicious_indicators |-> activity.indicators,
     user_network          |-> FirstTen(activity.users)]

\* the campaign built from coordinated[hashtag]
HashtagCampaign(activity, patterns, threshold) ==
    [hashtag               |-> activity.hashtag,
     volume                |-> activity.total_posts,
     unique_users          |-> Cardinality(activity.users),
     time_span             |-> activity.time_span,
     risk_score            |-> CalculateRiskScore(activity, patterns, threshold),
     first_detected        |-> activity.first_post,
     last_detected         |-> activity.last_post,
     suspicious_indicators |-> activity.indicators,
     user_network          |-> FirstTen(activity.users)]

\* the campaign built from a suspicious network
NetworkCampaign(network) ==
    [hashtag               |-> "network_" \o network.id,
     volume                |-> network.total_posts,
     unique_users          |-> Cardinality(network.users),
     time_span             |-> network.time_span,
     risk_score            |-> network.risk_score,
     first_detected        |-> network.first_activity,
     last_detected         |-> network.last_activity,
     suspicious_indicators |-> network.indicators,
     user_network          |-> [among |-> network.users,
                                size  |-> Cardinality(network.users)]]

\* mutant: every network becomes a campaign, whatever its risk score
AssembleCampaignsUnfiltered(coordinated, patterns, networks, threshold) ==
    [k \in 1..Len(coordinated) |-> HashtagCampaign(coordinated[k], patterns, threshold)]
    \o [k \in 1..Len(networks) |-> NetworkCampaign(networks[k])]

\* campaigns as appended, before the sort
AssembleCampaigns(coordinated, patterns, networks, threshold) ==
    LET risky == SelectSeq(networks, LAMBDA n : 2 * n.risk_score[1] > n.risk_score[2])
    IN [k \in 1..Len(coordinated) |-> HashtagCampaign(coordinated[k], patterns, threshold)]
       \o [k \in 1..Len(risky) |-> NetworkCampaign(risky[k])]

\* mutant: the list is returned in the order the campaigns were appended
SortCampaignsSkipped(cs) == cs

\* campaigns.sort(key=lambda x: x['risk_score'], reverse=True)
SortCampaigns(cs) ==
    Items(SortPairsDesc([i \in 1..Len(cs) |-> <<cs[i].risk_score, cs[i]>>]))

\* detect_campaigns(batch) with utcnow() = now
DetectCampaignsOf(batch, now, available, minVolume, threshold) ==
    LET coordinated == DetectCoordinatedHashtags(batch, now, minVolume)
        users == AnalyzeUserPatterns(batch, now)
        networks == DetectSuspiciousNetworks(batch, now, available)
    IN IF coordinated.raised \/ users.raised THEN Raised
       ELSE Returned(SortCampaigns(
                AssembleCampaigns(coordinated.out, users.pat, networks, threshold)))

----------------------------------------------------------------------------
(* detect_bot_users *)

\* len(self.bot_username_patterns)
NumUsernamePatterns == 4

\* mutant: the flags are returned in the order the users were first seen
SortBotsSkipped(bs) == bs

\* sorted(bots, key=lambda x: x['bot_score'], reverse=True)
SortBots(bs) ==
    Items(SortPairsDesc([i \in 1..Len(bs) |-> <<bs[i].bot_score, bs[i]>>]))

\* mutant: the risk level is 'high' only above 0.75
BotRecordHighAboveThreeQuarters(u, pattern) ==
    LET n == Len(pattern.bot_indicators)
        d == IF NumUsernamePatterns > 1 THEN NumUsernamePatterns ELSE 1
    IN [user_id       |-> u,
        bot_score     |-> ClampToOne(<<n, d>>),
        indicators    |-> pattern.bot_indicators,
        post_count    |-> Len(pattern.posts),
        hashtag_count |-> Cardinality(pattern.hashtags),
        risk_level    |-> IF 100 * n > 75 * d THEN "high" ELSE "medium"]

\* the record of a flagged user
BotRecord(u, pattern) ==
    LET n == Len(pattern.bot_indicators)
        d == IF NumUsernamePatterns > 1 THEN NumUsernamePatterns ELSE 1
    IN [user_id       |-> u,
        bot_score     |-> ClampToOne(<<n, d>>),
        indicators    |-> pattern.bot_indicators,
        post_count    |-> Len(pattern.posts),
        hashtag_count |-> Cardinality(pattern.hashtags),
        risk_level    |-> IF 10 * n > 7 * d THEN "high" ELSE "medium"]

\* mutant: a per-post average is taken first, dividing by len(posts)
DetectBotUsersOfAveraged(batch, now, threshold) ==
    LET users == AnalyzeUserPatterns(batch, now)
        flagged == SelectSeq(users.keys,
                             LAMBDA u : Len(users.pat[u].bot_indicators) >= threshold)
    IN IF users.raised \/ Len(batch) = 0 THEN Raised
       ELSE Returned(SortBots(
                [k \in 1..Len(flagged) |-> BotRecord(flagged[k], users.pat[flagged[k]])]))

DetectBotUsersOf(batch, now, threshold) ==
    LET users == AnalyzeUserPatterns(batch, now)
        flagged == SelectSeq(users.keys,
                             LAMBDA u : Len(users.pat[u].bot_indicators) >= threshold)
    IN IF users.raised THEN Raised
       ELSE Returned(SortBots(
                [k \in 1..Len(flagged) |-> BotRecord(flagged[k], users.pat[flagged[k]])]))

----------------------------------------------------------------------------
(* SentimentClassifier: the keyword classifiers *)

\* a == b on fractions with positive denominators
FracEq(a, b) == a[1] * b[2] = b[1] * a[2]

\* min(a, b) on fractions with positive denominators
FracMin(a, b) == IF FracLess(b, a) THEN b ELSE a

\* self.sentiment_keywords
sentiment_keywords ==
    [positive |-> { <<"g", "o", "o", "d">>, <<"g", "r", "e", "a", "t">>,
                    <<"e", "x", "c", "e", "l", "l", "e", "n", "t">>,
                    <<"a", "m", "a", "z", "i", "n", "g">>,
                    <<"w", "o", "n", "d", "e", "r", "f", "u", "l">>,
                    <<"l", "o", "v", "e">>, <<"l", "i", "k", "e">>,
                    <<"h", "a", "p", "p", "y">>, <<"p", "r", "o", "u", "d">> },
     negative |-> { <<"b", "a", "d">>, <<"t", "e", "r", "r", "i", "b", "l", "e">>,
                    <<"a", "w", "f", "u", "l">>, <<"h", "a", "t", "e">>,
                    <<"d", "i", "s", "l", "i", "k", "e">>, <<"a", "n", "g", "r", "y">>,
                    <<"s", "a", "d">>,
                    <<"d", "i", "s", "a", "p", "p", "o", "i", "n", "t", "e", "d">> }]

\* self.india_keywords
india_keywords ==
    LET india == <<" ", "i", "n", "d", "i", "a">>
    IN [pro_india |-> { <<"p", "r", "o", "u", "d">> \o india,
                        <<"l", "o", "v", "e">> \o india,
                        <<"s", "u", "p", "p", "o", "r", "t">> \o india,
                        <<"i", "n", "c", "r", "e", "d", "i", "b", "l", "e">> \o india,
                        <<"d", "i", "g", "i", "t", "a", "l">> \o india,
                        <<"m", "a", "k", "e", " ", "i", "n">> \o india },
        anti_india |-> { <<"b", "o", "y", "c", "o", "t", "t">> \o india,
                          <<"a", "n", "t", "i">> \o india,
                          <<"h", "a", "t", "e">> \o india,
                          <<"d", "e", "s", "t", "r", "o", "y">> \o india,
                          <<"f", "a", "k", "e">> \o india }]

\* sum(1 for word in keywords if word in text_lower)
CountHits(keywords, low) == Cardinality({w \in keywords : ContainsWord(low, w)})

\* text_lower.count(w), for a word that cannot overlap itself
CountOccurrences(low, w) ==
    Cardinality({i \in 1..(Len(low) - Len(w) + 1) : SubSeq(low, i, i + Len(w) - 1) = w})

\* the scores dictionary of classify_india_relation
StanceScores(pro, anti, neutral) ==
    ("Pro-India" :> pro) @@ ("Anti-India" :> anti) @@ ("Neutral" :> neutral)

\* 1 - confidence
OneMinus(f) == <<f[2] - f[1], f[2]>>

\* mutant: a tie of the two counts is reported like a text without any keyword
KeywordBasedSentimentTieAsNone(t) ==
    LET low == LowerText(t)
        positive_count == CountHits(sentiment_keywords.positive, low)
        negative_count == CountHits(sentiment_keywords.negative, low)
        total_sentiment_words == positive_count + negative_count
    IN IF total_sentiment_words = 0 \/ positive_count = negative_count
       THEN [sentiment |-> "neutral", confidence |-> <<6, 10>>,
             scores |-> [positive |-> <<2, 10>>, negative |-> <<2, 10>>,
                         neutral |-> <<6, 10>>],
             model_used |-> "keyword_fallback"]
       ELSE IF positive_count > negative_count
       THEN LET confidence == <<positive_count, total_sentiment_words>>
            IN [sentiment |-> "positive", confidence |-> confidence,
                scores |-> [positive |-> confidence, negative |-> OneMinus(confidence),
                            neutral |-> <<0, 1>>],
                model_used |-> "keyword_fallback"]
       ELSE LET confidence == <<negative_count, total_sentiment_words>>
            IN [sentiment |-> "negative", confidence |-> confidence,
                scores |-> [negative |-> confidence, positive |-> OneMinus(confidence),
                            neutral |-> <<0, 1>>],
                model_used |-> "keyword_fallback"]

\* _keyword_based_sentiment(text)
KeywordBasedSentiment(t) ==
    LET low == LowerText(t)
        positive_count == CountHits(sentiment_keywords.positive, low)
        negative_count == CountHits(sentiment_keywords.negative, low)
        total_sentiment_words == positive_count + negative_count
    IN IF total_sentiment_words = 0
       THEN [sentiment |-> "neutral", confidence |-> <<6, 10>>,
             scores |-> [positive |-> <<2, 10>>, negative |-> <<2, 10>>,
                         neutral |-> <<6, 10>>],
             model_used |-> "keyword_fallback"]
       ELSE IF positive_count > negative_count
       THEN LET confidence == <<positive_count, total_sentiment_words>>
            IN [sentiment |-> "positive", confidence |-> confidence,
                scores |-> [positive |-> confidence, negative |-> OneMinus(confidence),
                            neutral |-> <<0, 1>>],
                model_used |-> "keyword_fallback"]
       ELSE IF negative_count > positive_count
       THEN LET confidence == <<negative_count, total_sentiment_words>>
            IN [sentiment |-> "negative", confidence |-> confidence,
                scores |-> [negative |-> confidence, positive |-> OneMinus(confidence),
                            neutral |-> <<0, 1>>],
                model_used |-> "keyword_fallback"]
       ELSE [sentiment |-> "neutral", confidence |-> <<5, 10>>,
             scores |-> [positive |-> <<25, 100>>, negative |-> <<25, 100>>,
                         neutral |-> <<5, 10>>],
             model_used |-> "keyword_fallback"]

\* what self.sentiment_pipeline(text[:512]) may do: raise, or return a label and a score
PipelineOutcomes ==
    {[raised |-> TRUE, label |-> "", score |-> <<0, 1>>]}
    \cup {[raised |-> FALSE, label |-> l, score |-> <<3, 4>>] :
             l \in {"positive", "NEGATIVE", "LABEL_1"}}

\* result[0]['label'].lower()
LowerLabel(l) == CASE l = "NEGATIVE" -> "negative" [] l = "LABEL_1" -> "label_1" [] OTHER -> l

\* mutant: an empty text is sent on to the keyword count
ClassifySentimentOfUnguarded(t, isLoaded, outcome) ==
    KeywordBasedSentiment(t)

\* classify_sentiment(text)
ClassifySentimentOf(t, isLoaded, outcome) ==
    IF t = <<>>
    THEN [sentiment |-> "neutral", confidence |-> <<0, 1>>,
          scores |-> [positive |-> <<0, 1>>, negative |-> <<0, 1>>, neutral |-> <<1, 1>>]]
    ELSE IF isLoaded /\ ~outcome.raised
    THEN LET label == LowerLabel(outcome.label)
             s == IF label \in {"positive", "pos"} THEN "positive"
                  ELSE IF label \in {"negative", "neg"} THEN "negative"
                  ELSE "neutral"
         IN [sentiment |-> s, confidence |-> outcome.score,
             scores |-> (s :> outcome.score) @@ ("others" :> OneMinus(outcome.score)),
             model_used |-> "huggingface"]
    ELSE KeywordBasedSentiment(t)

\* mutant: the confidence of a one-sided stance is left without the 0.9 cap
StanceConfidenceUncapped(count, total_matches) ==
    <<count, IF total_matches >= 1 THEN total_matches ELSE 1>>

\* min(0.9, count / max(total_matches, 1))
StanceConfidence(count, total_matches) ==
    FracMin(<<9, 10>>, <<count, IF total_matches >= 1 THEN total_matches ELSE 1>>)

\* mutant: equal counts answered with the confidence of the sentiment tie
BalancedStanceAsSentimentTie ==
    [classification |-> "Neutral", confidence |-> <<5, 10>>,
     scores |-> StanceScores(<<2, 10>>, <<2, 10>>, <<6, 10>>),
     model_used |-> "keyword_analysis"]

\* the answer of classify_india_relation when pro_count = anti_count > 0
BalancedStance ==
    [classification |-> "Neutral", confidence |-> <<6, 10>>,
     scores |-> StanceScores(<<2, 10>>, <<2, 10>>, <<6, 10>>),
     model_used |-> "keyword_analysis"]

\* classify_india_relation(text); india_mentions * 0.2 is kept as the exact
\* fraction (the float product 3 * 0.2 lies one rounding step above 0.6); the
\* second word counted is the Devanagari name of India, a character per code point
ClassifyIndiaRelationOf(t) ==
    IF t = <<>>
    THEN [classification |-> "Neutral", confidence |-> <<0, 1>>,
          scores |-> StanceScores(<<0, 1>>, <<0, 1>>, <<1, 1>>)]
    ELSE
    LET low == LowerText(t)
        pro_count == CountHits(india_keywords.pro_india, low)
        anti_count == CountHits(india_keywords.anti_india, low)
        total_matches == pro_count + anti_count
        india_mentions == CountOccurrences(low, <<"i", "n", "d", "i", "a">>)
                          + CountOccurrences(low, <<"U+092D", "U+093E", "U+0930", "U+0924">>)
    IN IF total_matches = 0
       THEN IF india_mentions > 0
            THEN [classification |-> "Neutral",
                  confidence |-> FracMin(<<7, 10>>, <<2 * india_mentions, 10>>),
                  scores |-> StanceScores(<<2, 10>>, <<2, 10>>, <<6, 10>>),
                  model_used |-> "keyword_analysis"]
            ELSE [classification |-> "Neutral", confidence |-> <<9, 10>>,
                  scores |-> StanceScores(<<5, 100>>, <<5, 100>>, <<9, 10>>),
                  model_used |-> "keyword_analysis"]
       ELSE IF pro_count > anti_count
       THEN LET confidence == StanceConfidence(pro_count, total_matches)
            IN [classification |-> "Pro-India", confidence |-> confidence,
                scores |-> StanceScores(confidence, OneMinus(confidence), <<0, 1>>),
                model_used |-> "keyword_analysis"]
       ELSE IF anti_count > pro_count
       THEN LET confidence == StanceConfidence(anti_count, total_matches)
            IN [classification |-> "Anti-India", confidence |-> confidence,
                scores |-> StanceScores(OneMinus(confidence), confidence, <<0, 1>>),
                model_used |-> "keyword_analysis"]
       ELSE BalancedStance

----------------------------------------------------------------------------
(* TextProcessor.clean_text *)

UpperLetters == {"A", "B", "C", "D", "E", "F", "G", "H", "I", "J", "K", "L", "M",
                 "N", "O", "P", "Q", "R", "S", "T", "U", "V", "W", "X", "Y", "Z"}

\* the characters \s matches
Whitespace == {" ", "\t", "\n", "\r"}

IsSpace(c) == c \in Whitespace

\* \w
IsWordChar(c) == c \in LowerLetters \cup UpperLetters \cup Digits \cup {"_"}

\* s[i..] begins with w
StartsWithAt(s, i, w) == i + Len(w) - 1 <= Len(s) /\ SubSeq(s, i, i + Len(w) - 1) = w

\* the last index of the longest run of characters of the class cls that begins
\* at i; i - 1 when s[i] is not of the class
RunEnd(s, i, cls) ==
    LET ends == {e \in (i - 1)..Len(s) : \A k \in i..e : s[k] \in cls}
    IN CHOOSE e \in ends : \A f \in ends : f <= e

\* the characters of s that are no white space
NonSpaceOf(s) == {s[k] : k \in 1..Len(s)} \ Whitespace

\* where a match of url_pattern r'https?://[^\s]+' that begins at i ends; 0 if none
UrlEnd(s, i) ==
    LET http == <<"h", "t", "t", "p">>
        rest == <<":", "/", "/">>
        body == IF StartsWithAt(s, i, http \o <<"s">> \o rest) THEN i + 8
                ELSE IF StartsWithAt(s, i, http \o rest) THEN i + 7
                ELSE 0
        e == IF body = 0 THEN 0 ELSE RunEnd(s, body, NonSpaceOf(s))
    IN IF body # 0 /\ e >= body THEN e ELSE 0

\* \b just before position k
WordBoundary(s, k) ==
    (k - 1 >= 1 /\ IsWordChar(s[k - 1])) # (k <= Len(s) /\ IsWordChar(s[k]))

\* where a match of email_pattern
\* r'\b[A-Za-z0-9._%+-]+@[A-Za-z0-9.-]+\.[A-Z|a-z]{2,}\b' that begins at i
\* ends; 0 if none. The local part is the whole run up to the '@'; the domain
\* is taken as long as it can be, and then the last part as long as it can be
EmailEnd(s, i) ==
    LET alnum == LowerLetters \cup UpperLetters \cup Digits
        a == RunEnd(s, i, alnum \cup {".", "_", "%", "+", "-"})
        d == RunEnd(s, a + 2, alnum \cup {".", "-"})
        tld(q) == RunEnd(s, q + 2, LowerLetters \cup UpperLetters \cup {"|"})
        ends(q) == {e \in (q + 3)..tld(q) : WordBoundary(s, e + 1)}
        dots == {q \in (a + 2)..(d - 1) : s[q + 1] = "." /\ ends(q) # {}}
    IN IF /\ WordBoundary(s, i)
          /\ a >= i
          /\ a + 1 <= Len(s)
          /\ s[a + 1] = "@"
          /\ dots # {}
       THEN LET q == CHOOSE x \in dots : \A y \in dots : y <= x
            IN CHOOSE e \in ends(q) : \A f \in ends(q) : f <= e
       ELSE 0

\* where a match of mention_pattern r'@[A-Za-z0-9_]+' that begins at i ends; 0 if none
MentionEnd(s, i) ==
    LET e == RunEnd(s, i + 1, LowerLetters \cup UpperLetters \cup Digits \cup {"_"})
    IN IF s[i] = "@" /\ e >= i + 1 THEN e ELSE 0

RECURSIVE SubUrls(_, _)
\* url_pattern.sub('', s), from position i on
SubUrls(s, i) ==
    IF i > Len(s) THEN <<>>
    ELSE LET e == UrlEnd(s, i)
         IN IF e > 0 THEN SubUrls(s, e + 1) ELSE <<s[i]>> \o SubUrls(s, i + 1)

RECURSIVE SubEmails(_, _)
\* email_pattern.sub('', s), from position i on
SubEmails(s, i) ==
    IF i > Len(s) THEN <<>>
    ELSE LET e == EmailEnd(s, i)
         IN IF e > 0 THEN SubEmails(s, e + 1) ELSE <<s[i]>> \o SubEmails(s, i + 1)

RECURSIVE SubMentions(_, _)
\* mention_pattern.sub('', s), from position i on
SubMentions(s, i) ==
    IF i > Len(s) THEN <<>>
    ELSE LET e == MentionEnd(s, i)
         IN IF e > 0 THEN SubMentions(s, e + 1) ELSE <<s[i]>> \o SubMentions(s, i + 1)

\* re.sub(r'\s+', ' ', s): a white-space character stays, as a blank, when it
\* begins its run
CollapseSpaces(s) ==
    LET first == {i \in 1..Len(s) : IsSpace(s[i]) /\ (i = 1 \/ ~IsSpace(s[i - 1]))}
        blank(i) == IF i \in first THEN " " ELSE IF IsSpace(s[i]) THEN "drop" ELSE s[i]
    IN SelectSeq([i \in 1..Len(s) |-> blank(i)], LAMBDA c : c # "drop")

\* re.sub(r'[^\w\s#@.,!?-]', '', s)
RemoveSpecial(s) ==
    SelectSeq(s, LAMBDA c : \/ IsWordChar(c)
                           \/ IsSpace(c)
                           \/ c \in {"#", "@", ".", ",", "!", "?", "-"})

\* s.strip()
Strip(s) ==
    LET inked == {i \in 1..Len(s) : ~IsSpace(s[i])}
    IN IF inked = {} THEN <<>>
       ELSE SubSeq(s, CHOOSE i \in inked : \A j \in inked : i <= j,
                      CHOOSE i \in inked : \A j \in inked : j <= i)

\* clean_text(text)
CleanTextOf(t) ==
    IF t = <<>> THEN <<>>
    ELSE Strip(RemoveSpecial(CollapseSpaces(
             SubMentions(SubEmails(SubUrls(LowerText(t), 1), 1), 1))))

----------------------------------------------------------------------------
(* The callers: the batches each client hands to the detector *)

At(form, t) == [form |-> form, t |-> t]

Post(u, name, content, created_at) ==
    [user_id |-> u, username |-> name, content |-> content, created_at |-> created_at]

Bot1(content, created_at) == Post("bot1", <<"B", "o", "t", "1">>, content, created_at)
Maya(content, created_at) == Post("maya", <<"m", "a", "y", "a">>, content, created_at)

\* values datetime.utcnow() may return during a call
Nows == {90000, 90001}

SeqsUpTo(S, n) == UNION {[1..k -> S] : k \in 0..n}

GeneralKinds ==
    { Bot1(<<"#boycottindia", "#boycottindia", "#boycottindia">>, At("datetime", 0)),
      Maya(<<"#Test", "#boycottindia">>, At("datetime", 1800)),
      Maya(<<"#test", "#test">>, At("datetime", 30000)),
      Bot1(<<"#test", "breaking">>, At("datetime", 4000)) }

\* two identical posts give maya two indicators and bot1, by its username, three
TunedKinds ==
    { Maya(<<"#test">>, At("datetime", 30000)),
      Bot1(<<"#test", "breaking">>, At("datetime", 4000)) }

StampKinds ==
    { Maya(<<"#news", "#news", "#news">>, At(f, 600)) : f \in {"datetime", "iso", "isoZ"} }
    \cup { Maya(<<"#news", "#news", "#news">>, At(f, 0)) : f \in {"malformed", "missing"} }
    \cup { Bot1(<<"#news", "#news", "#news">>, At("malformed", 0)) }

OrderKinds ==
    { Bot1(<<"#news">>, At("datetime", 0)),
      Bot1(<<"#news">>, At("datetime", 2000)) }

\* six posts carrying #test once, within 30 minutes, one user posting four and the other two
ScenarioBatches ==
    LET kinds(i) == {Bot1(<<"#test">>, At("datetime", 300 * i))}
                    \cup {Maya(<<"hello", "#test">>, At("datetime", t)) : t \in {0, 1800}}
        by(b, u) == Cardinality({i \in 1..6 : b[i].user_id = u})
    IN {b \in [1..6 -> UNION {kinds(i) : i \in 1..6}] :
            /\ \A i \in 1..6 : b[i] \in kinds(i)
            /\ {by(b, "bot1"), by(b, "maya")} = {4, 2}}

\* the i-th post is written by the i-th user
NetPost(i, content) ==
    Post("user" \o ToString(i), <<"u", ToString(i)>>, content,
         IF Len(content) > 1 THEN At("iso", 40 * i) ELSE At("datetime", 40 * i))

\* every user posts #news or no hashtag; the last one may add a second hashtag
NetworkBatches ==
    LET contents == {<<"#news">>, <<"#news", "#test">>, <<"hello">>}
        allowed(cs, k) == \A i \in 1..(k - 1) : Len(cs[i]) = 1
    IN UNION {{[i \in 1..k |-> NetPost(i, cs[i])] :
                    cs \in {c \in [1..k -> contents] : allowed(c, k)}}
                : k \in 0..NumNetUsers}

\* n posts carrying #news, each by a user of its own, evenly spread over 24 hours
EvenBatch(n, start) ==
    [i \in 1..n |-> Post("u" \o ToString(i), <<"m", "a", "y", "a">>, <<"#news">>,
                         At("datetime", start + (86400 * (i - 1)) \div n))]

EvenBatches ==
    {EvenBatch(100 * k, start) : k \in 1..MaxEvenHundreds, start \in {0, 1800}}

\* posts carrying #test three times, by two users, on the edges of the time bands
ScoredKinds ==
    {Post(u[1], u[2], <<"#test", "#test", "#test">>, At("datetime", t)) :
        u \in {<<"bot1", <<"B", "o", "t", "1">>>>, <<"maya", <<"m", "a", "y", "a">>>>},
        t \in {0, 3600, 21600}}

\* bot1 writing one of four texts, a post every 100 seconds
RepeatBatches ==
    LET kinds == {<<"bot1", <<"B", "o", "t", "1">>, <<w>>>> : w \in {"a", "b", "c", "d"}}
    IN {[i \in 1..Len(ks) |-> Post(ks[i][1], ks[i][2], ks[i][3], At("datetime", 100 * i))] :
            ks \in SeqsUpTo(kinds, MaxRepeatPosts)}

\* maya's posts at instants 300 seconds or more apart, or 100 seconds apart
SpacedKinds == {Maya(<<"hello">>, At("datetime", t)) : t \in {0, 300, 900, 1000}}

\* the username "bot_account_123"
BotAccount123 == <<"b", "o", "t", "_", "a", "c", "c", "o", "u", "n", "t", "_", "1", "2", "3">>
\* the username "tech_enthusiast"
TechEnthusiast == <<"t", "e", "c", "h", "_", "e", "n", "t", "h", "u", "s", "i", "a", "s", "t">>

\* the users the username rules are tried on
NamedKinds ==
    {Post(u[1], u[2], c, At("datetime", t)) :
        u \in {<<"u1", BotAccount123>>, <<"u2", TechEnthusiast>>},
        c \in {<<"#test">>, <<"hello">>},
        t \in {0, 4000}}

Clients == {"general", "stamps", "order", "scenario", "network", "tuned"}

Batches(c) ==
    CASE c = "general"  -> SeqsUpTo(GeneralKinds, MaxPosts)
      [] c = "stamps"   -> SeqsUpTo(StampKinds, MaxStampPosts)
      [] c = "order"    -> SeqsUpTo(OrderKinds, MaxOrderPosts)
      [] c = "scenario" -> ScenarioBatches
      [] c = "network"  -> NetworkBatches
      [] c = "tuned"    -> SeqsUpTo(TunedKinds, MaxTunedPosts)
      [] c = "even"     -> EvenBatches
      [] c = "named"    -> SeqsUpTo(NamedKinds, MaxNamedPosts)
      [] c = "scored"   -> SeqsUpTo(ScoredKinds, MaxScoredPosts)
      [] c = "repeats"  -> RepeatBatches
      [] c = "spaced"   -> SeqsUpTo(SpacedKinds, MaxSpacedPosts)
      [] OTHER          -> {<<>>}

\* the phrases and words the classifiers' caller strings together with blanks
ClassifierFragments ==
    { <<"P", "r", "o", "u", "d", " ", "I", "n", "d", "i", "a">>,
      <<"l", "o", "v", "e", " ", "i", "n", "d", "i", "a">>,
      <<"b", "o", "y", "c", "o", "t", "t", " ", "i", "n", "d", "i", "a">>,
      <<"h", "a", "t", "e", " ", "i", "n", "d", "i", "a">>,
      <<"G", "o", "o", "d">>,
      <<"d", "i", "s", "l", "i", "k", "e">>,
      <<"i", "n", "d", "i", "a">> }

RECURSIVE JoinWords(_)
\* ' '.join(ws)
JoinWords(ws) ==
    IF ws = <<>> THEN <<>>
    ELSE IF Len(ws) = 1 THEN ws[1]
    ELSE ws[1] \o <<" ">> \o JoinWords(Tail(ws))

\* the pieces the cleaner's caller strings together
CleanerPieces ==
    { <<"B">>, <<" ">>, <<"\t">>, <<" ", "$">>, <<"@", "b">>, <<".", "c", "o">>,
      <<"h", "t", "t", "p", ":", "/", "/">> }

RECURSIVE Concat(_)
\* ''.join(ps)
Concat(ps) == IF ps = <<>> THEN <<>> ELSE ps[1] \o Concat(Tail(ps))

Texts(c) ==
    CASE c = "classifier" -> {JoinWords(ws) : ws \in SeqsUpTo(ClassifierFragments, MaxFragments)}
      [] c = "cleaner"    -> {Concat(ps) : ps \in SeqsUpTo(CleanerPieces, MaxPieces)}
      [] OTHER            -> {<<>>}

PermutationsOf(batch) ==
    {[i \in 1..Len(batch) |-> batch[p[i]]] : p \in Permutations(1..Len(batch))}

----------------------------------------------------------------------------
(* Binary64 arithmetic of the severity score (backend/models/alert_system.py).
   A natural number is a little-endian sequence of limbs in base LimbBase; a
   non-negative double is m * 2^e with m below 2^53. *)

LimbBase == 4096

RECURSIVE Limbs(_)
\* the limbs of a natural number
Limbs(n) == IF n = 0 THEN <<>> ELSE <<n % LimbBase>> \o Limbs(n \div LimbBase)

RECURSIVE Trim(_)
\* without leading zero limbs
Trim(a) ==
    IF a # <<>> /\ a[Len(a)] = 0 THEN Trim(SubSeq(a, 1, Len(a) - 1)) ELSE a

RECURSIVE AddCarry(_, _, _)
AddCarry(a, b, carry) ==
    IF a = <<>> /\ b = <<>>
    THEN IF carry = 0 THEN <<>> ELSE <<carry>>
    ELSE LET x == IF a = <<>> THEN 0 ELSE Head(a)
             y == IF b = <<>> THEN 0 ELSE Head(b)
             s == x + y + carry
         IN <<s % LimbBase>>
            \o AddCarry(IF a = <<>> THEN <<>> ELSE Tail(a),
                        IF b = <<>> THEN <<>> ELSE Tail(b), s \div LimbBase)

\* a + b
AddN(a, b) == Trim(AddCarry(a, b, 0))

RECURSIVE MulSmallCarry(_, _, _)
MulSmallCarry(a, k, carry) ==
    IF a = <<>>
    THEN IF carry = 0 THEN <<>> ELSE <<carry>>
    ELSE LET s == Head(a) * k + carry
         IN <<s % LimbBase>> \o MulSmallCarry(Tail(a), k, s \div LimbBase)

\* a * k for k up to LimbBase
MulSmall(a, k) == Trim(MulSmallCarry(a, k, 0))

RECURSIVE MulN(_, _)
\* a * b
MulN(a, b) ==
    IF b = <<>> THEN <<>>
    ELSE LET rest == MulN(a, Tail(b))
         IN AddN(MulSmall(a, Head(b)), IF rest = <<>> THEN <<>> ELSE <<0>> \o rest)

RECURSIVE DivSmall(_, _)
\* quotient and remainder of a by k, k up to LimbBase
DivSmall(a, k) ==
    IF a = <<>> THEN [q |-> <<>>, r |-> 0]
    ELSE LET high == DivSmall(Tail(a), k)
             cur == high.r * LimbBase + Head(a)
         IN [q |-> <<cur \div k>> \o high.q, r |-> cur % k]

RECURSIVE CmpN(_, _)
\* -1, 0 or 1 as a is below, equal to or above b
CmpN(a, b) ==
    IF Len(a) # Len(b) THEN (IF Len(a) < Len(b) THEN -1 ELSE 1)
    ELSE IF a = <<>> THEN 0
    ELSE IF a[Len(a)] # b[Len(b)] THEN (IF a[Len(a)] < b[Len(b)] THEN -1 ELSE 1)
    ELSE CmpN(SubSeq(a, 1, Len(a) - 1), SubSeq(b, 1, Len(b) - 1))

\* the number of binary digits of a
BitLen(a) ==
    IF a = <<>> THEN 0
    ELSE 12 * (Len(a) - 1) + CHOOSE n \in 1..12 : 2^(n - 1) <= a[Len(a)] /\ a[Len(a)] < 2^n

\* a * 2^s
ShiftLeft(a, s) ==
    IF a = <<>> THEN <<>>
    ELSE [i \in 1..(s \div 12) |-> 0] \o MulSmall(a, 2^(s % 12))

\* floor(a / 2^d)
ShiftRight(a, d) ==
    IF d \div 12 >= Len(a) THEN <<>>
    ELSE Trim(DivSmall(SubSeq(a, d \div 12 + 1, Len(a)), 2^(d % 12)).q)

\* m * 2^e rounded to 53 binary digits, ties to the even mantissa
RoundDouble(m, e) ==
    IF BitLen(m) <= 53 THEN [m |-> m, e |-> e]
    ELSE LET d == BitLen(m) - 53
             q == ShiftRight(m, d)
             c == CmpN(ShiftLeft(m, 1), ShiftLeft(AddN(ShiftLeft(q, 1), <<1>>), d))
             up == c > 0 \/ (c = 0 /\ q[1] % 2 = 1)
         IN [m |-> IF up THEN AddN(q, <<1>>) ELSE q, e |-> e + d]

\* float(n) of a small int
FromInt(n) == [m |-> Limbs(n), e |-> 0]

\* n / k of two ints, k positive and up to LimbBase: the quotient correctly rounded
TrueDivide(n, k) ==
    LET d == DivSmall(ShiftLeft(Limbs(n), 72), k)
    IN RoundDouble(AddN(ShiftLeft(Trim(d.q), 1), IF d.r = 0 THEN <<>> ELSE <<1>>), -73)

\* x * y
FloatMul(x, y) == RoundDouble(MulN(x.m, y.m), x.e + y.e)

\* x + y
FloatAdd(x, y) ==
    LET e == IF x.e < y.e THEN x.e ELSE y.e
    IN RoundDouble(AddN(ShiftLeft(x.m, x.e - e), ShiftLeft(y.m, y.e - e)), e)

\* x > k for an int k
FloatAbove(x, k) ==
    LET e == IF x.e < 0 THEN x.e ELSE 0
    IN CmpN(ShiftLeft(x.m, x.e - e), ShiftLeft(Limbs(k), 0 - e)) > 0

\* the double 0.4, 0x1.999999999999ap-2
PointFour == [m |-> <<2458, 2457, 2457, 2457, 25>>, e |-> -54]

\* the double 0.2, 0x1.999999999999ap-3
PointTwo == [m |-> <<2458, 2457, 2457, 2457, 25>>, e |-> -55]

\* posts * 0.4 + (engagement / 1000) * 0.4 + users * 0.2
SeverityScore(posts_count, engagement, users) ==
    FloatAdd(FloatAdd(FloatMul(FromInt(posts_count), PointFour),
                      FloatMul(TrueDivide(engagement, 1000), PointFour)),
             FloatMul(FromInt(users), PointTwo))

\* calculate_alert_severity(alert_type, metrics); a key the metrics lack reads 0
CalculateAlertSeverity(type, given) ==
    IF type = "trending_negative"
    THEN LET posts_count == IF "posts" \in DOMAIN given THEN given.posts ELSE 0
             engagement == IF "engagement" \in DOMAIN given THEN given.engagement ELSE 0
             users == IF "users" \in DOMAIN given THEN given.users ELSE 0
             severity_score == SeverityScore(posts_count, engagement, users)
         IN IF FloatAbove(severity_score, 100) THEN "critical"
            ELSE IF FloatAbove(severity_score, 50) THEN "high"
            ELSE IF FloatAbove(severity_score, 20) THEN "medium"
            ELSE "low"
    ELSE "medium"

RECURSIVE SubBorrow(_, _, _)
SubBorrow(a, b, borrow) ==
    IF a = <<>> THEN <<>>
    ELSE LET d == Head(a) - (IF b = <<>> THEN 0 ELSE Head(b)) - borrow
         IN <<IF d < 0 THEN d + LimbBase ELSE d>>
            \o SubBorrow(Tail(a), IF b = <<>> THEN <<>> ELSE Tail(b), IF d < 0 THEN 1 ELSE 0)

\* a - b for a not below b
SubN(a, b) == Trim(SubBorrow(a, b, 0))

\* x - y for x not below y
FloatSub(x, y) ==
    LET e == IF x.e < y.e THEN x.e ELSE y.e
    IN RoundDouble(SubN(ShiftLeft(x.m, x.e - e), ShiftLeft(y.m, y.e - e)), e)

\* x > y
FloatGreater(x, y) ==
    LET e == IF x.e < y.e THEN x.e ELSE y.e
    IN CmpN(ShiftLeft(x.m, x.e - e), ShiftLeft(y.m, y.e - e)) > 0

\* the double 0.5
PointFive == [m |-> <<1>>, e |-> -1]

\* the double 0.6, 0x1.3333333333333p-1
PointSix == [m |-> <<819, 819, 819, 819, 19>>, e |-> -53]

\* the double 0.8, 0x1.999999999999ap-1
PointEight == [m |-> <<2458, 2457, 2457, 2457, 25>>, e |-> -53]

\* (1 - sentiment_score) * 0.5 + keyword_match_score * 0.5
AntiIndiaScore(sentiment_score, keyword_match_score) ==
    FloatAdd(FloatMul(FloatSub(FromInt(1), sentiment_score), PointFive),
             FloatMul(keyword_match_score, PointFive))

----------------------------------------------------------------------------
(* SentimentAnalyzer.analyze_tweets and AlertSystem.generate_alerts (src/) *)

\* ALERT_THRESHOLD = int(os.getenv("ALERT_THRESHOLD", "10"))
ALERT_THRESHOLD == 10

\* what load_keywords leaves when keywords.json cannot be read
NoKeywords == [keywords |-> {}, hashtags |-> {}, phrases |-> {}, contexts |-> {}]

\* a keywords.json with one entry in each list
SampleKeywords ==
    [keywords |-> {<<"b", "o", "y", "c", "o", "t", "t">>},
     hashtags |-> {<<"#", "B", "o", "y", "c", "o", "t", "t", "I", "n", "d", "i", "a">>},
     phrases  |-> {<<"h", "a", "t", "e", " ", "i", "n", "d", "i", "a">>},
     contexts |-> {<<"p", "r", "o", "t", "e", "s", "t">>}]

\* hashtag.lower().replace('#', '')
WithoutHash(h) == SelectSeq(h, LAMBDA c : c # "#")

\* keyword_match_score(text) with the lists of lex
KeywordMatchScore(t, lex) ==
    LET low == LowerText(t)
        keyword_matches == Cardinality({k \in lex.keywords : ContainsWord(low, LowerText(k))})
        hashtag_matches ==
            Cardinality({h \in lex.hashtags :
                            \/ ContainsWord(low, LowerText(h))
                            \/ ContainsWord(low, WithoutHash(LowerText(h)))})
        phrase_matches == Cardinality({q \in lex.phrases : ContainsWord(low, LowerText(q))})
        context_matches == Cardinality({c \in lex.contexts : ContainsWord(low, LowerText(c))})
        \* twice total_score and twice max_possible: the weight 1.5 makes halves
        total2 == 2 * keyword_matches + 2 * hashtag_matches
                  + 4 * phrase_matches + 3 * context_matches
        max2 == 2 * Cardinality(lex.keywords) + 2 * Cardinality(lex.hashtags)
                + 4 * Cardinality(lex.phrases) + 3 * Cardinality(lex.contexts)
    IN IF max2 > 2 THEN TrueDivide(total2, max2) ELSE TrueDivide(total2, 2)

\* the row of one tweet after analyze_tweets, its sentiment_score being score
AnalyzedRow(row, score, lex) ==
    LET keyword_match_score == KeywordMatchScore(row.cleaned_text, lex)
        anti_india_score == AntiIndiaScore(score, keyword_match_score)
    IN [id |-> row.id, cleaned_text |-> row.cleaned_text,
        sentiment_score |-> score,
        keyword_match_score |-> keyword_match_score,
        anti_india_score |-> anti_india_score,
        flagged |-> FloatGreater(anti_india_score, PointSix)]

\* analyze_tweets(df), predict_sentiment answering scores[i] for the i-th tweet
AnalyzeTweetsOf(frame, scores, lex) ==
    [analyzed |-> TRUE,
     rows |-> SubSeq([i \in 1..Len(frame.rows) |-> AnalyzedRow(frame.rows[i], scores[i], lex)],
                     1, Len(frame.rows))]

\* self.alert_threshold / 10
Cutoff(threshold) == TrueDivide(threshold, 10)

\* the positions of df[df['anti_india_score'] > self.alert_threshold / 10]
HighScoreTweets(frame, threshold) ==
    IF frame.analyzed
    THEN {i \in 1..Len(frame.rows) :
             FloatGreater(frame.rows[i].anti_india_score, Cutoff(threshold))}
    ELSE {}

\* the arrangements sort_values(by='anti_india_score', ascending=False) may give:
\* no row before one of a greater score, rows of equal score in either order
DescendingOrders(frame, positions) ==
    {order \in [1..Cardinality(positions) -> positions] :
        /\ \A a, b \in DOMAIN order : a # b => order[a] # order[b]
        /\ \A a, b \in DOMAIN order :
              a < b => ~FloatGreater(frame.rows[order[b]].anti_india_score,
                                     frame.rows[order[a]].anti_india_score)}

\* generate_alerts returns None when it has no alert
None == [alert_count |-> 0]

\* generate_alerts(df) without user_metrics and coord_df, the rows above the
\* cutoff arranged as order; head(10) keeps the first ten
GenerateAlertsOf(frame, order) ==
    LET kept == SubSeq(order, 1, Min2(10, Len(order)))
        alert(i) ==
            [type |-> "high_anti_india_score",
             severity |-> IF FloatGreater(frame.rows[i].anti_india_score, PointEight)
                          THEN "high" ELSE "medium",
             tweet_id |-> frame.rows[i].id,
             score |-> frame.rows[i].anti_india_score]
        found == SubSeq([k \in 1..Len(kept) |-> alert(kept[k])], 1, Len(kept))
    IN IF found = <<>> THEN None
       ELSE [alert_count |-> Len(found), alerts |-> found]


\* the tweets of the alert client
TweetTexts ==
    { <<"h", "e", "l", "l", "o">>,
      <<"H", "a", "t", "e", " ", "I", "n", "d", "i", "a">>,
      <<"#", "B", "o", "y", "c", "o", "t", "t", "I", "n", "d", "i", "a", " ", "h", "a", "t", "e", " ", "i", "n", "d", "i", "a", " ", "p", "r", "o", "t", "e", "s", "t">> }

\* dataframes of up to MaxTweets tweets with the columns id and cleaned_text
Frames ==
    {[analyzed |-> FALSE,
      rows |-> SubSeq([i \in 1..Len(ts) |-> [id |-> i, cleaned_text |-> ts[i]]], 1, Len(ts))] :
        ts \in SeqsUpTo(TweetTexts, MaxTweets)}

\* the probabilities predict_sentiment may answer: the multiples of 2^-ProbabilityBits
\* from 0 to 1 (0.5, the fallback on an error, among them)
Probabilities == {[m |-> Limbs(j), e |-> 0 - ProbabilityBits] : j \in 0..(2^ProbabilityBits)}

\* the default threshold and one a deployment sets through the environment
AlertThresholds == {ALERT_THRESHOLD, 6}

\* the metrics the severity client hands over: counts around the three band
\* limits, with all keys, without the engagement key, or with no key at all
SeverityMetrics ==
    LET full == {[posts |-> p, engagement |-> 500 * h, users |-> u] :
                    p \in 0..MaxSeverityPosts, h \in 0..MaxEngagementHalves,
                    u \in {0} \cup {limit - below : limit \in {100, 250, 500},
                                                    below \in 0..MaxUsersBelow}}
        keys == {{"posts", "engagement", "users"}, {"posts", "users"}, {}}
    IN {[k \in ks |-> m[k]] : m \in full, ks \in keys}

\* the alert types of self.alert_thresholds
AlertTypes == {"trending_negative", "coordinated_campaign", "high_influence_user"}

----------------------------------------------------------------------------
(* The state machine *)

\* self.min_campaign_volume = 5
MinCampaignVolume == 5
\* self.bot_indicators_threshold = 3
BotIndicatorsThreshold == 3
\* the values the tuning client leaves in the bot_indicators_threshold knob
TunedThresholds == {BotIndicatorsThreshold - 1, BotIndicatorsThreshold}

InitOf(cs) ==
    /\ client \in cs
    /\ networkx \in (CASE client = "network" -> BOOLEAN
                        [] client = "even"    -> {FALSE}
                        [] OTHER              -> {TRUE})
    /\ min_campaign_volume = MinCampaignVolume
    /\ bot_indicators_threshold \in (IF client \in {"tuned", "scored"} THEN TunedThresholds
                                    ELSE {BotIndicatorsThreshold})
    /\ posts \in Batches(client)
    /\ postsReordered \in (IF client = "order" THEN PermutationsOf(posts) ELSE {posts})
    /\ campaigns = NotCalled
    /\ campaignsAgain = NotCalled
    /\ campaignsReordered = NotCalled
    /\ bots = NotCalled
    /\ hashtag_activity = <<>>
    /\ user_patterns = NotCalled
    /\ pattern_loop = [position |-> 0, raised |-> FALSE, patterns |-> <<>>]
    /\ text \in Texts(client)
    /\ loaded \in (IF client = "classifier" THEN BOOLEAN ELSE {FALSE})
    /\ sentiment = NotCalled
    /\ relation = NotCalled
    /\ cleaned = NotCalled
    /\ alert_type \in (IF client = "severity" THEN AlertTypes ELSE {"trending_negative"})
    /\ metrics \in (IF client = "severity" THEN SeverityMetrics ELSE {<<>>})
    /\ severity = NotCalled
    /\ lexicon \in (IF client = "alerts" THEN {NoKeywords, SampleKeywords} ELSE {NoKeywords})
    /\ df \in (IF client = "alerts" THEN Frames ELSE {[analyzed |-> FALSE, rows |-> <<>>]})
    /\ alert_threshold \in (IF client = "alerts" THEN AlertThresholds ELSE {ALERT_THRESHOLD})
    /\ alerts = NotCalled

Init == InitOf(Clients)

\* detect_campaigns(posts)
DetectCampaigns ==
    /\ campaigns.status = "idle"
    /\ \E now \in Nows :
          /\ hashtag_activity' = HashtagActivity(posts, now)
          /\ campaigns' = DetectCampaignsOf(posts, now, networkx, min_campaign_volume,
                                         bot_indicators_threshold)
    /\ UNCHANGED <<client, networkx, min_campaign_volume, bot_indicators_threshold, posts,
                   campaignsAgain, postsReordered, campaignsReordered, bots>>
    /\ UNCHANGED <<user_patterns, pattern_loop, textVars, alertVars>>

\* a second detect_campaigns(posts) on the unchanged batch
DetectCampaignsAgain ==
    /\ campaigns.status # "idle"
    /\ campaignsAgain.status = "idle"
    /\ \E now \in Nows :
          /\ hashtag_activity' = HashtagActivity(posts, now)
          /\ campaignsAgain' = DetectCampaignsOf(posts, now, networkx, min_campaign_volume,
                                              bot_indicators_threshold)
    /\ UNCHANGED <<client, networkx, min_campaign_volume, bot_indicators_threshold, posts,
                   campaigns, postsReordered, campaignsReordered, bots>>
    /\ UNCHANGED <<user_patterns, pattern_loop, textVars, alertVars>>

\* mutant: the call leaves a raised min_campaign_volume behind on the detector
DetectCampaignsReorderedAdapting ==
    /\ postsReordered # posts
    /\ campaigns.status # "idle"
    /\ campaignsReordered.status = "idle"
    /\ \E now \in Nows :
          /\ hashtag_activity' = HashtagActivity(postsReordered, now)
          /\ campaignsReordered' = DetectCampaignsOf(postsReordered, now, networkx,
                                                  min_campaign_volume,
                                                  bot_indicators_threshold)
    /\ min_campaign_volume' = min_campaign_volume + 1
    /\ UNCHANGED <<client, networkx, bot_indicators_threshold, posts,
                   campaigns, campaignsAgain, postsReordered, bots>>
    /\ UNCHANGED <<user_patterns, pattern_loop, textVars, alertVars>>

\* detect_campaigns on the same posts listed in another order
DetectCampaignsReordered ==
    /\ postsReordered # posts
    /\ campaigns.status # "idle"
    /\ campaignsReordered.status = "idle"
    /\ \E now \in Nows :
          /\ hashtag_activity' = HashtagActivity(postsReordered, now)
          /\ campaignsReordered' = DetectCampaignsOf(postsReordered, now, networkx,
                                                  min_campaign_volume,
                                                  bot_indicators_threshold)
    /\ UNCHANGED <<client, networkx, min_campaign_volume, bot_indicators_threshold, posts,
                   campaigns, campaignsAgain, postsReordered, bots>>
    /\ UNCHANGED <<user_patterns, pattern_loop, textVars, alertVars>>

\* detect_bot_users(posts)
DetectBotUsers ==
    /\ bots.status = "idle"
    /\ \E now \in Nows :
          bots' = DetectBotUsersOf(posts, now, bot_indicators_threshold)
    /\ UNCHANGED <<client, networkx, min_campaign_volume, bot_indicators_threshold, posts,
                   campaigns, campaignsAgain, postsReordered, campaignsReordered,
                   hashtag_activity>>
    /\ UNCHANGED <<user_patterns, pattern_loop, textVars, alertVars>>

\* _analyze_user_patterns(posts)
AnalyzeUserPatternsPass ==
    /\ user_patterns.status = "idle"
    /\ \E now \in Nows :
          LET r == AnalyzeUserPatterns(posts, now)
          IN user_patterns' = IF r.raised THEN Raised ELSE Returned(r.pat)
    /\ UNCHANGED <<client, networkx, min_campaign_volume, bot_indicators_threshold, posts,
                   campaigns, campaignsAgain, postsReordered, campaignsReordered, bots,
                   hashtag_activity, pattern_loop, textVars, alertVars>>

\* one turn of the loop of _analyze_user_patterns(posts), over the next post
AnalyzeUserPatternsStep ==
    /\ ~pattern_loop.raised
    /\ pattern_loop.position < Len(posts)
    /\ \E now \in Nows :
          LET post == posts[pattern_loop.position + 1]
              u == post.user_id
              entry == IF u \in DOMAIN pattern_loop.patterns
                       THEN pattern_loop.patterns[u] ELSE NewUserPattern
              r == StepUserPattern([raised |-> FALSE, pat |-> entry], post, now)
          IN pattern_loop' =
                 IF r.raised THEN [pattern_loop EXCEPT !.raised = TRUE]
                 ELSE [position |-> pattern_loop.position + 1,
                       raised   |-> FALSE,
                       patterns |-> (u :> r.pat) @@ pattern_loop.patterns]
    /\ UNCHANGED <<client, networkx, min_campaign_volume, bot_indicators_threshold, posts,
                   campaigns, campaignsAgain, postsReordered, campaignsReordered, bots,
                   hashtag_activity, user_patterns, textVars, alertVars>>

\* classify_sentiment(text)
ClassifySentiment ==
    /\ sentiment.status = "idle"
    /\ \E outcome \in PipelineOutcomes :
          sentiment' = Returned(ClassifySentimentOf(text, loaded, outcome))
    /\ UNCHANGED <<detectorVars, alertVars, text, loaded, relation, cleaned>>

\* classify_india_relation(text)
ClassifyIndiaRelation ==
    /\ relation.status = "idle"
    /\ relation' = Returned(ClassifyIndiaRelationOf(text))
    /\ UNCHANGED <<detectorVars, alertVars, text, loaded, sentiment, cleaned>>

\* clean_text(text)
CleanText ==
    /\ cleaned.status = "idle"
    /\ cleaned' = Returned(CleanTextOf(text))
    /\ UNCHANGED <<detectorVars, alertVars, text, loaded, sentiment, relation>>

\* calculate_alert_severity(alert_type, metrics)
CalculateAlertSeverityCall ==
    /\ severity.status = "idle"
    /\ severity' = Returned(CalculateAlertSeverity(alert_type, metrics))
    /\ UNCHANGED <<detectorVars, textVars, alert_type, metrics, lexicon, df, alert_threshold, alerts>>

\* analyze_tweets(df)
AnalyzeTweets ==
    /\ ~df.analyzed
    /\ alerts.status = "idle"
    /\ \E scores \in [1..Len(df.rows) -> Probabilities] :
          df' = AnalyzeTweetsOf(df, scores, lexicon)
    /\ UNCHANGED <<detectorVars, textVars, alert_type, metrics, severity, lexicon,
                   alert_threshold, alerts>>

\* generate_alerts(df)
GenerateAlerts ==
    /\ alerts.status = "idle"
    /\ \E order \in DescendingOrders(df, HighScoreTweets(df, alert_threshold)) :
          alerts' = Returned(GenerateAlertsOf(df, order))
    /\ UNCHANGED <<detectorVars, textVars, alert_type, metrics, severity, lexicon, df,
                   alert_threshold>>

\* the calls on the batch as collected
NextCalls ==
    \/ DetectCampaigns
    \/ DetectCampaignsAgain
    \/ DetectBotUsers

Next ==
    \/ DetectCampaigns
    \/ DetectCampaignsAgain
    \/ DetectCampaignsReordered
    \/ DetectBotUsers

Spec == Init /\ [][Next]_vars

\* one client at a time
SpecGeneral == InitOf({"general"}) /\ [][NextCalls]_vars
SpecStamps == InitOf({"stamps"}) /\ [][NextCalls]_vars
SpecScenario == InitOf({"scenario"}) /\ [][NextCalls]_vars
SpecNetwork == InitOf({"network"}) /\ [][NextCalls]_vars
SpecOrder == InitOf({"order"}) /\ [][Next]_vars
SpecEven == InitOf({"even"}) /\ [][NextCalls]_vars
SpecTuned == InitOf({"tuned"}) /\ [][NextCalls]_vars
SpecScored == InitOf({"scored"}) /\ [][NextCalls]_vars

\* the user-pattern pass and the bot listing on the named users
NextNamed ==
    \/ AnalyzeUserPatternsPass
    \/ DetectBotUsers

SpecNamed == InitOf({"named"}) /\ [][NextNamed]_vars
SpecRepeats == InitOf({"repeats"}) /\ [][NextNamed]_vars
SpecSpaced == InitOf({"spaced"}) /\ [][NextNamed]_vars

\* the user-pattern loop, turn by turn
NextLoop ==
    \/ AnalyzeUserPatternsStep

SpecLoop == InitOf({"repeats", "spaced"}) /\ [][NextLoop]_vars

\* the two classifiers on one text
NextClassifier ==
    \/ ClassifySentiment
    \/ ClassifyIndiaRelation

SpecClassifier == InitOf({"classifier"}) /\ [][NextClassifier]_vars

\* the cleaner on one text
NextCleaner ==
    \/ CleanText

SpecCleaner == InitOf({"cleaner"}) /\ [][NextCleaner]_vars

\* the severity of one alert
NextSeverity ==
    \/ CalculateAlertSeverityCall

SpecSeverity == InitOf({"severity"}) /\ [][NextSeverity]_vars

\* the analysis of a dataframe and the alerts on it
NextAlerts ==
    \/ AnalyzeTweets
    \/ GenerateAlerts

SpecAlerts == InitOf({"alerts"}) /\ [][NextAlerts]_vars

----------------------------------------------------------------------------
(* Properties *)

\* the results of the detect_campaigns calls made so far
CampaignCalls == {campaigns, campaignsAgain, campaignsReordered}

\* every campaign record some call returned
ReturnedCampaigns == UNION {Range(r.out) : r \in CampaignCalls}

HashtagsOf(r) == {r.out[i].hashtag : i \in 1..Len(r.out)}

\* number of matches of hashtag h in the batch
GroupSize(h) == Len(SelectSeq(Occurrences(posts), LAMBDA o : o[1] = h))

\* the created_at values of the posts matched by hashtag h
GroupInstants(h) ==
    LET occ == SelectSeq(Occurrences(posts), LAMBDA o : o[1] = h)
    IN {posts[occ[k][2]].created_at : k \in 1..Len(occ)}

(* C1: every campaign record detect_campaigns returns, hashtag-based or
   network-based, has a risk_score between 0 and 1 inclusive. *)
RiskScoreInUnitInterval ==
    \A c \in ReturnedCampaigns :
        /\ c.risk_score[2] > 0
        /\ 0 <= c.risk_score[1]
        /\ c.risk_score[1] <= c.risk_score[2]

\* a returned campaign whose four indicators push the raw score above 1
RiskScoreClampedWitness ==
    \E c \in Range(campaigns.out) :
        /\ Len(c.suspicious_indicators) = 4
        /\ c.risk_score[1] = c.risk_score[2]

(* C3: a hashtag group with fewer than min_campaign_volume matches is never
   in the returned list, and a group with exactly min_campaign_volume matches
   is in it. *)
VolumeFilterBoundary ==
    \A r \in {campaigns, campaignsAgain} :
        r.status = "returned" =>
            \A h \in Range(HashtagKeys(posts)) :
                /\ GroupSize(h) < min_campaign_volume => h \notin HashtagsOf(r)
                /\ GroupSize(h) = min_campaign_volume => h \in HashtagsOf(r)

\* one group of exactly min_campaign_volume and one of one fewer, in a returned call
VolumeFilterWitness ==
    /\ campaigns.status = "returned"
    /\ \E h \in Range(HashtagKeys(posts)) : GroupSize(h) = min_campaign_volume
    /\ \E h \in Range(HashtagKeys(posts)) : GroupSize(h) = min_campaign_volume - 1

(* C7: every campaign record detect_campaigns returns has
   unique_users <= volume. *)
UniqueUsersAtMostVolume ==
    \A c \in ReturnedCampaigns : c.unique_users <= c.volume

\* a returned campaign of several users, each with one post
UniqueUsersWitness ==
    \E c \in Range(campaigns.out) : c.unique_users > 1 /\ c.unique_users = c.volume

(* C8: the list detect_campaigns returns is in non-increasing order of
   risk_score, hashtag-based and network-based campaigns merged. *)
SortedByRiskDescending ==
    \A r \in CampaignCalls :
        \A i, j \in 1..Len(r.out) :
            i < j => ~FracLess(r.out[i].risk_score, r.out[j].risk_score)

\* a network campaign, appended last, returned ahead of a hashtag campaign
SortedMergedWitness ==
    /\ Len(campaigns.out) >= 2
    /\ campaigns.out[1].hashtag = "network_net_0"
    /\ campaigns.out[2].hashtag = "#news"
    /\ FracLess(campaigns.out[2].risk_score, campaigns.out[1].risk_score)

(* C10: on the empty batch detect_campaigns and detect_bot_users both return
   the empty list and do not raise. *)
EmptyBatchEmptyResults ==
    posts = <<>> =>
        /\ campaigns.status # "idle" => campaigns = Returned(<<>>)
        /\ campaignsAgain.status # "idle" => campaignsAgain = Returned(<<>>)
        /\ bots.status # "idle" => bots = Returned(<<>>)

\* both calls made on the empty batch
EmptyBatchWitness ==
    posts = <<>> /\ campaigns.status = "returned" /\ bots.status = "returned"

\* what C2 compares: hashtag, volume, indicators and risk_score of each campaign
Summary(r) ==
    {<<r.out[i].hashtag, r.out[i].volume, r.out[i].suspicious_indicators,
       r.out[i].risk_score>> : i \in 1..Len(r.out)}

(* C2: detect_campaigns does not depend on the order of the posts: the same
   batch listed in another order yields the same set of campaigns, with the
   same volume, indicators and risk_score for each hashtag. *)
OrderInvariant ==
    (campaigns.status # "idle" /\ campaignsReordered.status # "idle") =>
        /\ campaignsReordered.status = campaigns.status
        /\ Summary(campaignsReordered) = Summary(campaigns)

\* the client's six posts: all #test, two users, one of them with four posts
IsScenarioBatch ==
    /\ Len(posts) = 6
    /\ \A i \in 1..6 : FindHashtags(posts[i].content) = <<"#test">>
    /\ \E u \in {"bot1", "maya"} : Cardinality({i \in 1..6 : posts[i].user_id = u}) = 4
    /\ \A i, j \in 1..6 : posts[i].created_at.t - posts[j].created_at.t <= 1800

(* C4 as stated: for six #test posts within 30 minutes from two users, one
   posting four times, the #test campaign's indicators include rapid_posting
   and repeated_posting and its risk_score is above 0. *)
ScenarioRapidAndRepeated ==
    (IsScenarioBatch /\ campaigns.status # "idle") =>
        \E c \in Range(campaigns.out) :
            /\ c.hashtag = "#test"
            /\ {"rapid_posting", "repeated_posting"} \subseteq Range(c.suspicious_indicators)
            /\ c.risk_score[1] > 0

(* C4 amended: for such a batch detect_campaigns returns a #test campaign of
   volume 6 and 2 users whose indicators include neither rapid_posting (6 is
   not above 10) nor repeated_posting (6 / 2 is not above 3) and whose
   risk_score is above 0. *)
ScenarioNeitherRapidNorRepeated ==
    (IsScenarioBatch /\ campaigns.status # "idle") =>
        /\ campaigns.status = "returned"
        /\ \E c \in Range(campaigns.out) :
              /\ c.hashtag = "#test"
              /\ c.volume = 6
              /\ c.unique_users = 2
              /\ "rapid_posting" \notin Range(c.suspicious_indicators)
              /\ "repeated_posting" \notin Range(c.suspicious_indicators)
              /\ c.risk_score[1] > 0

\* the scenario's batch has been analysed
ScenarioWitness ==
    IsScenarioBatch /\ campaigns.status = "returned" /\ Len(campaigns.out) = 1

\* some post of the batch has a malformed or missing created_at
HasCoercedTimestamp ==
    \E i \in 1..Len(posts) : posts[i].created_at.form \in {"malformed", "missing"}

(* C5: detect_campaigns never raises on a batch in which some posts have a
   malformed or missing created_at, whatever the other posts' timestamps
   (valid ISO strings with or without 'Z'). *)
CoercionNeverRaises ==
    HasCoercedTimestamp => campaigns.status # "raised"

(* C6: a second detect_campaigns call on the same unchanged batch returns
   the same list as the first: same campaigns, field values and order. *)
SecondCallIdentical ==
    campaignsAgain.status # "idle" => campaignsAgain = campaigns

(* C9 as stated: a hashtag group whose posts have fewer than 2 distinct
   timestamps never appears as a campaign. *)
SingleInstantGroupDiscarded ==
    campaigns.status = "returned" =>
        \A h \in HashtagsOf(campaigns) : Cardinality(GroupInstants(h)) >= 2

(* C9 amended: the filter counts timestamp entries, not distinct instants: a
   group of min_campaign_volume or more matches all stamped with the same
   instant is kept and appears as a campaign with time_span 0. *)
SingleInstantGroupKept ==
    campaigns.status = "returned" =>
        \A h \in Range(HashtagKeys(posts)) :
            (GroupSize(h) >= min_campaign_volume /\ Cardinality(GroupInstants(h)) = 1) =>
                \E c \in Range(campaigns.out) :
                    c.hashtag = h /\ c.volume = GroupSize(h) /\ c.time_span = 0

\* a returned call on a batch with a large group stamped with one instant
SingleInstantWitness ==
    /\ campaigns.status = "returned"
    /\ \E h \in Range(HashtagKeys(posts)) :
          GroupSize(h) >= min_campaign_volume /\ Cardinality(GroupInstants(h)) = 1

(* C11: detect_bot_users returns its flags in non-increasing order of bot
   score; each flag's bot score is len(indicators) / max(number of username
   patterns, 1), and its risk_level is "high" exactly when that score is
   above 0.7 and "medium" otherwise. *)
BotFlagsScoredAndSorted ==
    LET d == IF NumUsernamePatterns > 1 THEN NumUsernamePatterns ELSE 1
    IN /\ \A i, j \in 1..Len(bots.out) :
              i < j => ~FracLess(bots.out[i].bot_score, bots.out[j].bot_score)
       /\ \A b \in Range(bots.out) :
              /\ b.bot_score[1] * d = Len(b.indicators) * b.bot_score[2]
              /\ b.risk_level \in {"high", "medium"}
              /\ b.risk_level = "high" <=> 10 * Len(b.indicators) > 7 * d

\* a user first seen with two indicators is returned after a later one with three
BotFlagsWitness ==
    /\ Len(bots.out) = 2
    /\ bots.out[1].risk_level = "high"
    /\ bots.out[2].risk_level = "medium"
    /\ bots.out[2].user_id = posts[1].user_id

(* C12: when networkx is absent the network pass yields nothing:
   detect_campaigns returns without raising, its list holds no network
   campaign and holds the campaign of every hashtag group that reaches
   min_campaign_volume. *)
WithoutNetworkxHashtagCampaignsOnly ==
    \A r \in {campaigns, campaignsAgain} :
        (~networkx /\ r.status # "idle") =>
            /\ r.status = "returned"
            /\ HashtagsOf(r) \subseteq Range(HashtagKeys(posts))
            /\ \A h \in Range(HashtagKeys(posts)) :
                  GroupSize(h) >= min_campaign_volume => h \in HashtagsOf(r)

\* six users sharing #news, a network when networkx is there, analysed without it
WithoutNetworkxWitness ==
    /\ ~networkx
    /\ Len(posts) = NumNetUsers
    /\ \A i \in 1..Len(posts) : "#news" \in Range(FindHashtags(posts[i].content))
    /\ campaigns.status = "returned"
    /\ HashtagsOf(campaigns) = {"#news"}

(* C13: the calls retain no state: every call leaves the detector's
   configuration and the batches it was given unchanged, and a call on a
   batch made after a call on a different batch returns what the call on
   that batch returned before it. *)
CallsRetainNoState ==
    [][/\ UNCHANGED <<min_campaign_volume, bot_indicators_threshold, networkx,
                      posts, postsReordered>>
       /\ (campaignsReordered.status # "idle" /\ campaignsAgain.status = "idle"
              /\ campaignsAgain'.status # "idle") => campaignsAgain' = campaigns]_vars

\* the batch was analysed again after a different batch that gave a different result
CallsRetainNoStateWitness ==
    /\ campaigns.status = "returned" /\ campaigns.out # <<>>
    /\ campaignsReordered.status = "returned" /\ campaignsReordered # campaigns
    /\ campaignsAgain.status = "returned"
    /\ bots.status = "returned"

(* C14: in every hashtag aggregate a detect_campaigns run builds, total_posts
   equals the length of the posts list and the length of the timestamps
   list, and the number of distinct users is at most total_posts. *)
HashtagActivityConsistent ==
    \A h \in DOMAIN hashtag_activity :
        LET a == hashtag_activity[h]
        IN /\ a.total_posts = Len(a.posts)
           /\ a.total_posts = Len(a.timestamps)
           /\ Cardinality(a.users) <= a.total_posts

\* an aggregate of two users in which one post is counted for each of its matches
HashtagActivityWitness ==
    \E h \in DOMAIN hashtag_activity :
        LET a == hashtag_activity[h]
        IN /\ Cardinality(a.users) = 2
           /\ Cardinality(Range(a.posts)) < a.total_posts

\* the scenario's batch: 1000 posts carrying #news, one per user, none with a
\* suspicious username, evenly spread over 24 hours
IsEvenScenario ==
    /\ Len(posts) = 1000
    /\ \A i \in 1..1000 :
          /\ posts[i].content = <<"#news">>
          /\ ~MatchesBotUsername(posts[i].username)
          /\ posts[i].created_at.form = "datetime"
          /\ posts[i].created_at.t - posts[1].created_at.t = (86400 * (i - 1)) \div 1000
    /\ Cardinality({posts[i].user_id : i \in 1..1000}) = 1000

(* C15: for 1000 posts carrying #news, evenly spread over 24 hours and written
   by 1000 users with unsuspicious usernames, the #news campaign has neither
   concentrated_timing nor rapid_posting among its indicators and its
   risk_score is the volume factor alone, 0.3. *)
EvenScenarioVolumeFactorOnly ==
    (IsEvenScenario /\ campaigns.status # "idle") =>
        /\ campaigns.status = "returned"
        /\ \E c \in Range(campaigns.out) :
              /\ c.hashtag = "#news"
              /\ "concentrated_timing" \notin Range(c.suspicious_indicators)
              /\ "rapid_posting" \notin Range(c.suspicious_indicators)
              /\ 10 * c.risk_score[1] = 3 * c.risk_score[2]

\* the scenario's batch has been analysed
EvenScenarioWitness ==
    IsEvenScenario /\ campaigns.status = "returned" /\ Len(campaigns.out) = 1

\* the number of pro phrases and of anti phrases the text contains
ProCount == CountHits(india_keywords.pro_india, LowerText(text))
AntiCount == CountHits(india_keywords.anti_india, LowerText(text))

(* C16: whenever the text matches more pro phrases than anti phrases,
   classify_india_relation returns the pro stance with confidence
   min(0.9, pro_count / (pro_count + anti_count)); with 2 pro phrases and no
   anti phrase the confidence is 0.9 *)
ProStanceConfidence ==
    (relation.status = "returned" /\ ProCount > AntiCount) =>
        /\ relation.out.classification = "Pro-India"
        /\ FracEq(relation.out.confidence,
                  FracMin(<<9, 10>>, <<ProCount, ProCount + AntiCount>>))
        /\ (ProCount = 2 /\ AntiCount = 0 => FracEq(relation.out.confidence, <<9, 10>>))

\* a text with two pro phrases and no anti phrase has been classified
ProStanceWitness ==
    /\ relation.status = "returned"
    /\ ProCount = 2
    /\ AntiCount = 0
    /\ relation.out.classification = "Pro-India"

\* the number of positive and of negative keywords the text contains
PositiveCount == CountHits(sentiment_keywords.positive, LowerText(text))
NegativeCount == CountHits(sentiment_keywords.negative, LowerText(text))

\* classify_sentiment answered from the keyword lists
KeywordAnswer ==
    /\ sentiment.status = "returned"
    /\ "model_used" \in DOMAIN sentiment.out
    /\ sentiment.out.model_used = "keyword_fallback"

(* C17: the keyword sentiment classification is neutral with confidence 0.6
   when no keyword of either polarity is hit, neutral with confidence 0.5
   when both polarities have the same non-zero count, and otherwise the
   polarity with the higher count, with confidence
   winner_count / (positive_count + negative_count) *)
KeywordSentimentRule ==
    KeywordAnswer =>
        LET out == sentiment.out
            total == PositiveCount + NegativeCount
        IN /\ (total = 0) =>
                  out.sentiment = "neutral" /\ FracEq(out.confidence, <<6, 10>>)
           /\ (total > 0 /\ PositiveCount = NegativeCount) =>
                  out.sentiment = "neutral" /\ FracEq(out.confidence, <<5, 10>>)
           /\ (PositiveCount > NegativeCount) =>
                  out.sentiment = "positive"
                  /\ FracEq(out.confidence, <<PositiveCount, total>>)
           /\ (NegativeCount > PositiveCount) =>
                  out.sentiment = "negative"
                  /\ FracEq(out.confidence, <<NegativeCount, total>>)

\* the keyword lists answered on a text where both polarities are hit equally often
KeywordSentimentWitness ==
    /\ KeywordAnswer
    /\ PositiveCount = NegativeCount
    /\ PositiveCount > 0
    /\ sentiment.out.sentiment = "neutral"

(* C18: on the empty text classify_sentiment and classify_india_relation both
   return the neutral category with confidence 0.0, and neither raises *)
EmptyTextNeutralZero ==
    (text = <<>>) =>
        /\ sentiment.status # "raised"
        /\ relation.status # "raised"
        /\ (sentiment.status = "returned" =>
               /\ sentiment.out.sentiment = "neutral"
               /\ FracEq(sentiment.out.confidence, <<0, 1>>))
        /\ (relation.status = "returned" =>
               /\ relation.out.classification = "Neutral"
               /\ FracEq(relation.out.confidence, <<0, 1>>))

\* both classifiers have answered on the empty text, the pipeline being loaded
EmptyTextWitness ==
    /\ text = <<>>
    /\ loaded
    /\ sentiment.status = "returned"
    /\ relation.status = "returned"

\* the bot indicators the user-pattern pass gave to the author of post i
IndicatorsOfAuthor(i) == Range(user_patterns.out[posts[i].user_id].bot_indicators)

(* C19: the user-pattern pass gives the suspicious_username indicator to a
   user whose username is "bot_account_123" and does not give it to a user
   whose username is "tech_enthusiast" *)
NamedUsersIndicator ==
    (user_patterns.status = "returned") =>
        \A i \in 1..Len(posts) :
            /\ (posts[i].username = BotAccount123) =>
                   "suspicious_username" \in IndicatorsOfAuthor(i)
            /\ (posts[i].username = TechEnthusiast) =>
                   "suspicious_username" \notin IndicatorsOfAuthor(i)

\* the pass ran on a batch of both users and flagged the first for its name,
\* the second for something else
NamedUsersWitness ==
    /\ user_patterns.status = "returned"
    /\ \E i, j \in 1..Len(posts) :
          /\ posts[i].username = BotAccount123
          /\ posts[j].username = TechEnthusiast
          /\ "suspicious_username" \in IndicatorsOfAuthor(i)
          /\ IndicatorsOfAuthor(j) # {}

(* C20: the text clean_text returns has its white space collapsed: it holds no
   two consecutive white-space characters and neither begins nor ends with
   white space *)
CleanedWhitespaceCollapsed ==
    (cleaned.status = "returned") =>
        LET out == cleaned.out
        IN /\ \A i \in 1..(Len(out) - 1) : ~(IsSpace(out[i]) /\ IsSpace(out[i + 1]))
           /\ (out # <<>>) => (~IsSpace(out[1]) /\ ~IsSpace(out[Len(out)]))

\* the hashtag campaigns the calls on posts returned
HashtagCampaignsReturned ==
    {c \in Range(campaigns.out) \cup Range(campaignsAgain.out) : c.hashtag = "#test"}

\* the users of campaign c that the user-pattern pass gave at least
\* bot_indicators_threshold bot indicators
BotUserCount(c) ==
    LET pat == AnalyzeUserPatterns(posts, 90000).pat
    IN Cardinality({u \in c.user_network.among :
                        Len(pat[u].bot_indicators) >= bot_indicators_threshold})

\* T of the formula, in tenths
TimeFactor(c) == IF c.time_span < 3600 THEN 3 ELSE IF c.time_span < 21600 THEN 2 ELSE 0

(* C21: the risk score of a hashtag campaign is
   min(1, 0.3 * min(1, total_posts / 100) + T + 0.3 * (bot_user_count / unique_users)
          + 0.1 * len(indicators)),
   T being 0.3 for a time span below 1 hour, 0.2 from 1 hour to below 6 hours
   and 0 otherwise, and a user counting as a bot exactly when the number of
   their bot indicators is at least bot_indicators_threshold *)
RiskScoreFormula ==
    \A c \in HashtagCampaignsReturned :
        LET sum == <<(3 * Min2(100, c.volume) + 100 * TimeFactor(c)
                        + 100 * Len(c.suspicious_indicators)) * c.unique_users
                       + 300 * BotUserCount(c),
                     1000 * c.unique_users>>
        IN FracEq(c.risk_score, FracMin(<<1, 1>>, sum))

\* a campaign of exactly one hour, in the middle band, half of whose users
\* count as bots by reaching the threshold exactly, scored below 1
RiskScoreFormulaWitness ==
    \E c \in HashtagCampaignsReturned :
        /\ c.time_span = 3600
        /\ c.unique_users = 2
        /\ BotUserCount(c) = 1
        /\ \E u \in c.user_network.among :
              Len(AnalyzeUserPatterns(posts, 90000).pat[u].bot_indicators)
                  = bot_indicators_threshold
        /\ FracLess(c.risk_score, <<1, 1>>)

\* the bot indicators the user-pattern pass left with user u
IndicatorsOfUser(u) == Range(user_patterns.out[u].bot_indicators)

\* of the last five posts of user u in the batch, fewer than 80% differ in text
RecentPostsRepeat(u) ==
    LET mine == UserPosts(posts, u)
        n == Len(mine)
        recent == SubSeq(mine, IF n > 5 THEN n - 4 ELSE 1, n)
    IN 5 * Cardinality({recent[i].content : i \in 1..Len(recent)}) < 4 * Len(recent)

(* C22: after the user-pattern pass a user has the repetitive_content
   indicator exactly when fewer than 80% of that user's most recent 5 posts
   in the batch are textually distinct *)
RepetitiveExactlyWhenRecentRepeat ==
    (user_patterns.status = "returned") =>
        \A u \in DOMAIN user_patterns.out :
            ("repetitive_content" \in IndicatorsOfUser(u)) <=> RecentPostsRepeat(u)

\* the instants of the posts of user u, in batch order
InstantsOfUser(u) ==
    LET mine == UserPosts(posts, u) IN [i \in 1..Len(mine) |-> mine[i].created_at.t]

\* the posts of user u lie pairwise at least 300 seconds apart
PairwiseSpaced(u) ==
    LET ts == InstantsOfUser(u)
    IN \A i, j \in 1..Len(ts) : i # j => (ts[i] - ts[j] >= 300 \/ ts[j] - ts[i] >= 300)

(* C23: a user whose posts are pairwise at least 300 seconds apart never gets
   the high_frequency_posting indicator, in whatever order the batch lists
   the posts *)
SpacedNeverHighFrequency ==
    (user_patterns.status = "returned") =>
        \A u \in DOMAIN user_patterns.out :
            PairwiseSpaced(u) => "high_frequency_posting" \notin IndicatorsOfUser(u)

\* the three bot indicators
BotIndicatorNames == {"suspicious_username", "repetitive_content", "high_frequency_posting"}

(* C25: during the user-pattern pass each of the three bot indicators is added
   at most once per user: after any prefix of the batch a user's
   bot_indicators list has no duplicates and at most 3 entries, and an
   indicator once added is never removed *)
BotIndicatorsAddedOnce ==
    /\ [](\A u \in DOMAIN pattern_loop.patterns :
            LET indicators == pattern_loop.patterns[u].bot_indicators
            IN /\ Cardinality(Range(indicators)) = Len(indicators)
               /\ Len(indicators) <= 3
               /\ Range(indicators) \subseteq BotIndicatorNames)
    /\ [][\A u \in DOMAIN pattern_loop.patterns :
            /\ u \in DOMAIN pattern_loop'.patterns
            /\ Range(pattern_loop.patterns[u].bot_indicators)
                  \subseteq Range(pattern_loop'.patterns[u].bot_indicators)]_vars

\* the loop has passed two more posts of a user who had all three indicators
\* after the second
BotIndicatorsWitness ==
    /\ pattern_loop.position >= 4
    /\ \E u \in DOMAIN pattern_loop.patterns :
          /\ Len(pattern_loop.patterns[u].posts) >= 4
          /\ Range(pattern_loop.patterns[u].bot_indicators) = BotIndicatorNames
          /\ posts[1].content = posts[2].content

\* the loop at its end holds what the pass returns
LoopEndsAsPass ==
    (pattern_loop.position = Len(posts) /\ Len(posts) > 0) =>
        pattern_loop.patterns = AnalyzeUserPatterns(posts, 90000).pat

\* the positions of the network campaigns in what detect_campaigns(posts) returned
NetworkCampaignPositions ==
    {i \in 1..Len(campaigns.out) : campaigns.out[i].hashtag \notin Range(HashtagKeys(posts))}

(* C24 as stated: every connected component of at least 3 users in the shared-hashtag
   user graph has one network campaign in the output of detect_campaigns,
   with risk_score = min(1, density * size / 10) *)
NetworkComponentsReported ==
    (networkx /\ campaigns.status = "returned") =>
        LET edges == GraphEdges(posts)
        IN \A component \in Range(ConnectedComponents(GraphNodes(posts), edges)) :
              Cardinality(component) >= 3 =>
                  LET density == Density(component, edges)
                      mine == {i \in NetworkCampaignPositions :
                                  campaigns.out[i].user_network.among = component}
                  IN /\ Cardinality(mine) = 1
                     /\ \A i \in mine :
                           FracEq(campaigns.out[i].risk_score,
                                  FracMin(<<1, 1>>, <<density[1] * Cardinality(component),
                                                      density[2] * 10>>))

\* min(1, density * size / 10) of a component
ComponentScore(component) ==
    LET density == Density(component, GraphEdges(posts))
    IN FracMin(<<1, 1>>, <<density[1] * Cardinality(component), density[2] * 10>>)

(* C24 amended: with networkx, a component of at least 3 users has one network
   campaign, scored min(1, density * size / 10), when that score is above 0.5,
   and none otherwise; there is no other network campaign *)
NetworkComponentsAboveHalfReported ==
    (networkx /\ campaigns.status = "returned") =>
        LET components == Range(ConnectedComponents(GraphNodes(posts), GraphEdges(posts)))
            of(component) == {i \in NetworkCampaignPositions :
                                 campaigns.out[i].user_network.among = component}
        IN /\ \A component \in components :
                 Cardinality(component) >= 3 =>
                     IF FracLess(<<5, 10>>, ComponentScore(component))
                     THEN /\ Cardinality(of(component)) = 1
                          /\ \A i \in of(component) :
                                FracEq(campaigns.out[i].risk_score, ComponentScore(component))
                     ELSE of(component) = {}
           /\ \A i \in NetworkCampaignPositions :
                 /\ campaigns.out[i].user_network.among \in components
                 /\ campaigns.out[i].unique_users >= 3

\* six users sharing a hashtag, reported as one network campaign scored 0.6
NetworkComponentsWitness ==
    /\ networkx
    /\ campaigns.status = "returned"
    /\ \E i \in NetworkCampaignPositions :
          /\ campaigns.out[i].unique_users = 6
          /\ FracEq(campaigns.out[i].risk_score, <<6, 10>>)
          /\ FracEq(ComponentScore(campaigns.out[i].user_network.among), <<6, 10>>)

\* the posts of the batch whose content holds hashtag h
PostsContaining(h) ==
    LET occ == Occurrences(posts)
    IN {occ[k][2] : k \in {j \in 1..Len(occ) : occ[j][1] = h}}

(* C26: a post contributes at most one entry to a hashtag group: total_posts of
   a group, and the volume of its campaign, equal the number of distinct posts
   of the batch that contain the hashtag, also when a post repeats it *)
OneEntryPerPost ==
    /\ \A h \in DOMAIN hashtag_activity :
          hashtag_activity[h].total_posts = Cardinality(PostsContaining(h))
    /\ campaigns.status = "returned" =>
          \A i \in 1..Len(campaigns.out) :
              campaigns.out[i].hashtag \in Range(HashtagKeys(posts)) =>
                  campaigns.out[i].volume = Cardinality(PostsContaining(campaigns.out[i].hashtag))

(* C27 as stated: a text matching the same non-zero number of pro and anti
   phrases is classified neutral with confidence 0.5, as the sentiment
   classifier does on a tie *)
StanceTieHalf ==
    (relation.status = "returned" /\ ProCount = AntiCount /\ ProCount > 0) =>
        /\ relation.out.classification = "Neutral"
        /\ FracEq(relation.out.confidence, <<5, 10>>)

(* C27 amended: a text matching the same non-zero number of pro and anti
   phrases is classified 'Neutral' with confidence 0.6 and scores 0.2 / 0.2 /
   0.6; the sentiment classifier's keyword tie is 'neutral' with 0.5 *)
StanceTieSixTenths ==
    /\ (relation.status = "returned" /\ ProCount = AntiCount /\ ProCount > 0) =>
          /\ relation.out.classification = "Neutral"
          /\ FracEq(relation.out.confidence, <<6, 10>>)
          /\ FracEq(relation.out.scores["Neutral"], <<6, 10>>)
          /\ FracEq(relation.out.scores["Pro-India"], <<2, 10>>)
          /\ FracEq(relation.out.scores["Anti-India"], <<2, 10>>)
    /\ (KeywordAnswer /\ PositiveCount = NegativeCount /\ PositiveCount > 0) =>
          /\ sentiment.out.sentiment = "neutral"
          /\ FracEq(sentiment.out.confidence, <<5, 10>>)

\* a text with one pro and one anti phrase has been classified
StanceTieWitness ==
    /\ relation.status = "returned"
    /\ ProCount = 1
    /\ AntiCount = 1
    /\ relation.out.classification = "Neutral"

\* 5000 times 0.4 * posts + 0.4 * (engagement / 1000) + 0.2 * users, in exact arithmetic
ScoreTimes5000 ==
    2000 * (IF "posts" \in DOMAIN metrics THEN metrics.posts ELSE 0)
    + 2 * (IF "engagement" \in DOMAIN metrics THEN metrics.engagement ELSE 0)
    + 1000 * (IF "users" \in DOMAIN metrics THEN metrics.users ELSE 0)

\* the band of the exact score: above 100, above 50, above 20, or not
ExactBand ==
    IF ScoreTimes5000 > 100 * 5000 THEN "critical"
    ELSE IF ScoreTimes5000 > 50 * 5000 THEN "high"
    ELSE IF ScoreTimes5000 > 20 * 5000 THEN "medium"
    ELSE "low"

(* C28: for a trending_negative alert the severity is the band of the score
   0.4*posts + 0.4*(engagement/1000) + 0.2*users: critical above 100, high
   above 50 up to 100, medium above 20 up to 50, low otherwise; one of the
   four severities is returned for every input *)
SeverityBandsOfScore ==
    (severity.status = "returned" /\ alert_type = "trending_negative") =>
        /\ severity.out \in {"low", "medium", "high", "critical"}
        /\ severity.out = ExactBand

\* away from the band limits the double score and the exact score agree on the band
SeverityBandsOffLimits ==
    (severity.status = "returned" /\ alert_type = "trending_negative"
        /\ ScoreTimes5000 \notin {20 * 5000, 50 * 5000, 100 * 5000}) =>
        severity.out = ExactBand

\* a call always returns, and one of the four severities
SeverityAlwaysOneOfFour ==
    /\ severity.status \in {"idle", "returned"}
    /\ severity.status = "returned" => severity.out \in {"low", "medium", "high", "critical"}

\* the tweets whose score is the largest analyze_tweets can give: sentiment_score 0
\* and every entry of a non-empty lexicon matched
TopScoreTweets ==
    IF df.analyzed
    THEN {i \in 1..Len(df.rows) :
             /\ df.rows[i].sentiment_score.m = <<>>
             /\ ~FloatGreater(FromInt(1), df.rows[i].keyword_match_score)}
    ELSE {}

(* C29: with the default alert_threshold of 10 generate_alerts can emit a
   high_anti_india_score alert: some anti_india_score the analyser produces
   exceeds alert_threshold / 10, so the tweet of the largest score it can
   produce is reported *)
DefaultThresholdAlertReachable ==
    (alerts.status = "returned" /\ alert_threshold = ALERT_THRESHOLD /\ TopScoreTweets # {}) =>
        /\ alerts.out # None
        /\ \E k \in 1..Len(alerts.out.alerts) :
              /\ alerts.out.alerts[k].type = "high_anti_india_score"
              /\ alerts.out.alerts[k].tweet_id \in TopScoreTweets

\* no anti_india_score is above 1, and with the default threshold no alert is emitted
DefaultThresholdNeverAlerts ==
    /\ df.analyzed =>
          \A i \in 1..Len(df.rows) : ~FloatGreater(df.rows[i].anti_india_score, FromInt(1))
    /\ (alerts.status = "returned" /\ alert_threshold = ALERT_THRESHOLD) => alerts.out = None

\* with a lower threshold the tweets above the cutoff are reported, greatest score first
LowerThresholdAlerts ==
    (alerts.status = "returned" /\ alerts.out # None) =>
        /\ alerts.out.alert_count = Cardinality(HighScoreTweets(df, alert_threshold))
        /\ \A k \in 1..Len(alerts.out.alerts) :
              alerts.out.alerts[k].tweet_id \in HighScoreTweets(df, alert_threshold)
        /\ \A a, b \in 1..Len(alerts.out.alerts) :
              a < b => ~FloatGreater(alerts.out.alerts[b].score, alerts.out.alerts[a].score)

(* C30: with the default bot_indicators_threshold of 3 and the 4 username
   patterns, every record detect_bot_users returns has exactly 3 indicators,
   bot_score 0.75 and risk_level "high" *)
BotRecordsAllHigh ==
    (bots.status = "returned" /\ bot_indicators_threshold = BotIndicatorsThreshold) =>
        \A k \in 1..Len(bots.out) :
            /\ Len(bots.out[k].indicators) = 3
            /\ Cardinality(Range(bots.out[k].indicators)) = 3
            /\ FracEq(bots.out[k].bot_score, <<75, 100>>)
            /\ bots.out[k].risk_level = "high"

\* detect_bot_users has returned a record under the default threshold
BotRecordsAllHighWitness ==
    /\ bots.status = "returned"
    /\ bot_indicators_threshold = BotIndicatorsThreshold
    /\ Len(bots.out) >= 1
    /\ bots.out[1].risk_level = "high"

====
